---------------------------- MODULE Spec2Model ----------------------------
(***************************************************************************)
(* The agent control loop of mcp-powerpoint-client.py (main, section 6)    *)
(* as a state machine.  Text is a sequence of one-character strings, so    *)
(* that stripping, splitting, prefix tests and the int()/float()/repr()    *)
(* conversions are computed the way Python computes them.                  *)
(***************************************************************************)
EXTENDS Integers, Sequences, FiniteSets, TLC

VARIABLES
    pc,                   \* "loop", "llm", "tool" or "done"
    turn,                 \* iterations of the for loop started (iteration + 1)
    query,                \* the operator's task
    gmail_tools,          \* the Gmail server's tool list
    last_response,        \* global last_response
    iteration_responses,  \* global iteration_responses, the transcript
    executed_calls,       \* global executed_calls
    current_query,        \* the prompt of the turn, after its fixed preamble
    response_text,        \* the reply of the turn
    func_name,            \* the tool name parsed in the turn
    arguments,            \* the arguments coerced in the turn
    result,               \* what call_tool returned in the turn
    reported,             \* the message the turn printed last
    model_calls,          \* history: calls of generate_with_timeout
    tool_calls,           \* history: calls of call_tool, in order
    model_results,        \* history: model calls whose outcome the loop saw
    tool_results,         \* history: tool calls whose outcome the loop saw
    last_turn,            \* history kept for a model that answers by the
                          \* prompt alone: prompt, reply and report of the
                          \* last turn
    ppt_app,              \* server: the global ppt_app
    ppt_presentation,     \* server: the global ppt_presentation
    presentation_open,    \* server: PowerPoint still has that presentation
    slides,               \* server: slides of that presentation
    shapes,               \* server: shapes on its last slide
    saved,                \* server: that presentation was written to a file
    tool_name,            \* server: the tool function called last
    tool_response,        \* server: what that call returned or raised
    opened                \* server history: open_powerpoint has succeeded
                          \* and close_powerpoint has not succeeded since

(***************************************************************************)
(* Python string primitives used by the loop.                              *)
(***************************************************************************)

\* str.strip() removes these characters (the subset of Python's whitespace
\* that the modelled replies use).
Whitespace == {" ", "\n", "\t"}

Digits == {"0", "1", "2", "3", "4", "5", "6", "7", "8", "9"}

RECURSIVE lstrip(_)
lstrip(s) ==
    IF s # <<>> /\ Head(s) \in Whitespace THEN lstrip(Tail(s)) ELSE s

RECURSIVE rstrip(_)
rstrip(s) ==
    IF s # <<>> /\ s[Len(s)] \in Whitespace
    THEN rstrip(SubSeq(s, 1, Len(s) - 1))
    ELSE s

\* s.strip()
strip(s) == rstrip(lstrip(s))

\* s.startswith(p)
startswith(s, p) == Len(s) >= Len(p) /\ SubSeq(s, 1, Len(p)) = p

\* s.endswith(p)
endswith(s, p) ==
    Len(s) >= Len(p) /\ SubSeq(s, Len(s) - Len(p) + 1, Len(s)) = p

\* c in s, for a one-character c
has_char(s, c) == \E i \in 1..Len(s) : s[i] = c

\* s.find(c) + 1 for a one-character c: the first position of c, 0 if none
find(s, c) ==
    IF has_char(s, c)
    THEN CHOOSE i \in 1..Len(s) :
            s[i] = c /\ \A j \in 1..(i - 1) : s[j] # c
    ELSE 0

\* s.split(c, 1): cut at the first c only
split_once(s, c) ==
    LET i == find(s, c)
    IN  IF i = 0 THEN <<s>>
        ELSE <<SubSeq(s, 1, i - 1), SubSeq(s, i + 1, Len(s))>>

\* s.split(c): cut at every c
RECURSIVE split(_, _)
split(s, c) ==
    LET i == find(s, c)
    IN  IF i = 0 THEN <<s>>
        ELSE <<SubSeq(s, 1, i - 1)>> \o split(SubSeq(s, i + 1, Len(s)), c)

\* sub in s, for a string sub
contains(s, sub) ==
    \E i \in 1..(Len(s) - Len(sub) + 1) : SubSeq(s, i, i + Len(sub) - 1) = sub

UpperToLower ==
    [c \in {"A","B","C","D","E","F","G","H","I","J","K","L","M",
            "N","O","P","Q","R","S","T","U","V","W","X","Y","Z"} |->
       CASE c = "A" -> "a" [] c = "B" -> "b" [] c = "C" -> "c"
         [] c = "D" -> "d" [] c = "E" -> "e" [] c = "F" -> "f"
         [] c = "G" -> "g" [] c = "H" -> "h" [] c = "I" -> "i"
         [] c = "J" -> "j" [] c = "K" -> "k" [] c = "L" -> "l"
         [] c = "M" -> "m" [] c = "N" -> "n" [] c = "O" -> "o"
         [] c = "P" -> "p" [] c = "Q" -> "q" [] c = "R" -> "r"
         [] c = "S" -> "s" [] c = "T" -> "t" [] c = "U" -> "u"
         [] c = "V" -> "v" [] c = "W" -> "w" [] c = "X" -> "x"
         [] c = "Y" -> "y" [] c = "Z" -> "z"]

\* s.lower()
lower(s) ==
    [i \in 1..Len(s) |->
        IF s[i] \in DOMAIN UpperToLower THEN UpperToLower[s[i]] ELSE s[i]]

\* sep.join(parts) for a one-character sep
RECURSIVE join(_, _)
join(sep, parts) ==
    IF parts = <<>> THEN <<>>
    ELSE IF Len(parts) = 1 THEN parts[1]
    ELSE parts[1] \o <<sep>> \o join(sep, Tail(parts))

(***************************************************************************)
(* Typed argument values.  Every value is a record of the same shape so    *)
(* that values of different Python types can be compared:                  *)
(*   str    t = "str",   s = the characters                                *)
(*   int    t = "int",   n = the integer                                   *)
(*   float  t = "float", neg = sign bit, n * 10^e = magnitude, n not a     *)
(*          multiple of 10 unless it is 0; s = "inf" or "nan" for the      *)
(*          two special floats.                                            *)
(***************************************************************************)
StrVal(chars) == [t |-> "str", s |-> chars, neg |-> FALSE, n |-> 0, e |-> 0]

IntVal(i) == [t |-> "int", s |-> <<>>, neg |-> FALSE, n |-> i, e |-> 0]

RECURSIVE normalize_float(_, _, _)
normalize_float(neg, n, e) ==
    IF n = 0 THEN [t |-> "float", s |-> <<>>, neg |-> neg, n |-> 0, e |-> 0]
    ELSE IF n % 10 = 0 THEN normalize_float(neg, n \div 10, e + 1)
    ELSE [t |-> "float", s |-> <<>>, neg |-> neg, n |-> n, e |-> e]

FloatVal(neg, n, e) == normalize_float(neg, n, e)

SpecialFloat(neg, name) ==
    [t |-> "float", s |-> name, neg |-> neg, n |-> 0, e |-> 0]

DigitValue ==
    [c \in Digits |->
       CASE c = "0" -> 0 [] c = "1" -> 1 [] c = "2" -> 2 [] c = "3" -> 3
         [] c = "4" -> 4 [] c = "5" -> 5 [] c = "6" -> 6 [] c = "7" -> 7
         [] c = "8" -> 8 [] c = "9" -> 9]

\* A digit group of a Python numeric literal: digits, with single
\* underscores allowed between two digits.
digits_ok(b) ==
    /\ b # <<>>
    /\ \A i \in 1..Len(b) : b[i] \in Digits \cup {"_"}
    /\ b[1] \in Digits
    /\ b[Len(b)] \in Digits
    /\ \A i \in 1..(Len(b) - 1) : ~(b[i] = "_" /\ b[i + 1] = "_")

\* The value of a digit group, most significant digit first.
RECURSIVE digits_value(_, _)
digits_value(b, acc) ==
    IF b = <<>> THEN acc
    ELSE IF Head(b) = "_" THEN digits_value(Tail(b), acc)
    ELSE digits_value(Tail(b), 10 * acc + DigitValue[Head(b)])

\* The number of digits in a digit group.
digits_count(b) == Cardinality({i \in 1..Len(b) : b[i] \in Digits})

has_sign(t) == t # <<>> /\ t[1] \in {"+", "-"}

unsigned(t) == IF has_sign(t) THEN Tail(t) ELSE t

is_negative(t) == t # <<>> /\ t[1] = "-"

\* int(s) does not raise ValueError
int_ok(s) == digits_ok(unsigned(strip(s)))

\* int(s), where int_ok(s)
int_value(s) ==
    LET t == strip(s)
        m == digits_value(unsigned(t), 0)
    IN  IF is_negative(t) THEN 0 - m ELSE m

\* The first position of an exponent marker in a float literal, 0 if none.
exp_pos(b) ==
    IF has_char(b, "e") /\ has_char(b, "E")
    THEN IF find(b, "e") < find(b, "E") THEN find(b, "e") ELSE find(b, "E")
    ELSE IF has_char(b, "e") THEN find(b, "e") ELSE find(b, "E")

mantissa_part(b) ==
    IF exp_pos(b) = 0 THEN b ELSE SubSeq(b, 1, exp_pos(b) - 1)

exponent_part(b) == SubSeq(b, exp_pos(b) + 1, Len(b))

int_digits(m) == split_once(m, ".")[1]

frac_digits(m) == IF has_char(m, ".") THEN split_once(m, ".")[2] ELSE <<>>

SpecialNames ==
    { <<"i","n","f">>, <<"i","n","f","i","n","i","t","y">>, <<"n","a","n">> }

decimal_ok(b) ==
    LET m == mantissa_part(b)
    IN  /\ int_digits(m) = <<>> \/ digits_ok(int_digits(m))
        /\ frac_digits(m) = <<>> \/ digits_ok(frac_digits(m))
        /\ int_digits(m) # <<>> \/ frac_digits(m) # <<>>
        /\ exp_pos(b) = 0 \/ digits_ok(unsigned(exponent_part(b)))

\* float(s) does not raise ValueError
float_ok(s) ==
    LET b == unsigned(strip(s))
    IN  lower(b) \in SpecialNames \/ decimal_ok(b)

\* float(s), where float_ok(s)
float_value(s) ==
    LET t == strip(s)
        b == unsigned(t)
        m == mantissa_part(b)
        x == exponent_part(b)
        ex == IF exp_pos(b) = 0 THEN 0
              ELSE IF is_negative(x) THEN 0 - digits_value(unsigned(x), 0)
              ELSE digits_value(unsigned(x), 0)
    IN  IF lower(b) \in SpecialNames
        THEN SpecialFloat(is_negative(t) /\ lower(b) # <<"n","a","n">>,
                          IF lower(b) = <<"n","a","n">>
                          THEN <<"n","a","n">> ELSE <<"i","n","f">>)
        ELSE FloatVal(is_negative(t),
                      digits_value(int_digits(m) \o frac_digits(m), 0),
                      ex - digits_count(frac_digits(m)))

(***************************************************************************)
(* repr() and str() of the values the loop formats into the call           *)
(* signature and the transcript.                                           *)
(***************************************************************************)
DigitChar ==
    [d \in 0..9 |->
       CASE d = 0 -> "0" [] d = 1 -> "1" [] d = 2 -> "2" [] d = 3 -> "3"
         [] d = 4 -> "4" [] d = 5 -> "5" [] d = 6 -> "6" [] d = 7 -> "7"
         [] d = 8 -> "8" [] d = 9 -> "9"]

RECURSIVE nat_chars(_)
nat_chars(n) ==
    IF n < 10 THEN <<DigitChar[n]>>
    ELSE nat_chars(n \div 10) \o <<DigitChar[n % 10]>>

\* repr(i) of an int
repr_int(i) == IF i < 0 THEN <<"-">> \o nat_chars(0 - i) ELSE nat_chars(i)

zeros(k) == [i \in 1..k |-> "0"]

\* repr(x) of a float: positional notation while the decimal point lies
\* within -4 < decpt <= 16, exponent notation otherwise.
repr_float(v) ==
    LET sign == IF v.neg THEN <<"-">> ELSE <<>>
        d == nat_chars(v.n)
        k == Len(d)
        decpt == k + v.e
        x == decpt - 1
        xs == IF x < 0 THEN nat_chars(0 - x) ELSE nat_chars(x)
    IN  IF v.s # <<>> THEN sign \o v.s
        ELSE IF v.n = 0 THEN sign \o <<"0", ".", "0">>
        ELSE IF decpt > -4 /\ decpt <= 16
        THEN IF decpt <= 0
             THEN sign \o <<"0", ".">> \o zeros(0 - decpt) \o d
             ELSE IF decpt >= k
             THEN sign \o d \o zeros(decpt - k) \o <<".", "0">>
             ELSE sign \o SubSeq(d, 1, decpt) \o <<".">>
                       \o SubSeq(d, decpt + 1, k)
        ELSE sign \o <<d[1]>>
                  \o (IF k > 1 THEN <<".">> \o SubSeq(d, 2, k) ELSE <<>>)
                  \o <<"e">> \o (IF x < 0 THEN <<"-">> ELSE <<"+">>)
                  \o (IF Len(xs) < 2 THEN <<"0">> ELSE <<>>) \o xs

\* The quote repr() puts around a str: double quotes only when the text
\* holds a single quote and no double quote.
repr_quote(s) == IF has_char(s, "'") /\ ~has_char(s, "\"") THEN "\"" ELSE "'"

RECURSIVE repr_escape(_, _)
repr_escape(s, q) ==
    IF s = <<>> THEN <<>>
    ELSE (CASE Head(s) = "\\" -> <<"\\", "\\">>
            [] Head(s) = "\n" -> <<"\\", "n">>
            [] Head(s) = "\t" -> <<"\\", "t">>
            [] Head(s) = q -> <<"\\", q>>
            [] OTHER -> <<Head(s)>>) \o repr_escape(Tail(s), q)

\* repr(s) of a str
repr_str(s) ==
    <<repr_quote(s)>> \o repr_escape(s, repr_quote(s)) \o <<repr_quote(s)>>

\* str(v) of a typed value: a str is written without quotes.
repr_value_unquoted(v) ==
    CASE v.t = "int" -> repr_int(v.n)
      [] v.t = "float" -> repr_float(v)
      [] OTHER -> v.s

\* repr(v) of a typed value
repr_value(v) ==
    CASE v.t = "int" -> repr_int(v.n)
      [] v.t = "float" -> repr_float(v)
      [] OTHER -> repr_str(v.s)

\* ", ".join(items)
RECURSIVE join_comma(_)
join_comma(items) ==
    IF items = <<>> THEN <<>>
    ELSE IF Len(items) = 1 THEN items[1]
    ELSE items[1] \o <<",", " ">> \o join_comma(Tail(items))

\* str(arguments): the dict is a sequence of [pname, value] in insertion
\* order, rendered {'k': v, ...}
repr_dict(args) ==
    <<"{">>
    \o join_comma([i \in 1..Len(args) |->
                     repr_str(args[i].pname) \o <<":", " ">>
                     \o repr_value(args[i].value)])
    \o <<"}">>

\* str(outputs): a list of str rendered ['a', 'b']
repr_list(outputs) ==
    <<"[">> \o join_comma([i \in 1..Len(outputs) |-> repr_str(outputs[i])])
    \o <<"]">>

(***************************************************************************)
(* Text constants: tool and parameter names, and the literals of the       *)
(* wire protocol.                                                          *)
(***************************************************************************)
\* "open_powerpoint"
N_open_powerpoint ==
    <<"o","p","e","n","_","p","o","w","e","r","p","o","i","n","t">>

\* "draw_rectangle"
N_draw_rectangle ==
    <<"d","r","a","w","_","r","e","c","t","a","n","g","l","e">>

\* "draw_rectangle_with_text"
N_draw_rectangle_with_text ==
    <<"d","r","a","w","_","r","e","c","t","a","n","g","l","e","_","w","i",
      "t","h","_","t","e","x","t">>

\* "save_presentation"
N_save_presentation ==
    <<"s","a","v","e","_","p","r","e","s","e","n","t","a","t","i","o","n">>

\* "close_powerpoint"
N_close_powerpoint ==
    <<"c","l","o","s","e","_","p","o","w","e","r","p","o","i","n","t">>

\* "send-email"
N_send_email ==
    <<"s","e","n","d","-","e","m","a","i","l">>

\* "send_email__via_outlook_with_attachment"
N_send_email_outlook ==
    <<"s","e","n","d","_","e","m","a","i","l","_","_","v","i","a","_","o",
      "u","t","l","o","o","k","_","w","i","t","h","_","a","t","t","a","c",
      "h","m","e","n","t">>

\* "set_zoom"
N_set_zoom ==
    <<"s","e","t","_","z","o","o","m">>

\* "x"
P_x ==
    <<"x">>

\* "y"
P_y ==
    <<"y">>

\* "width"
P_width ==
    <<"w","i","d","t","h">>

\* "height"
P_height ==
    <<"h","e","i","g","h","t">>

\* "text"
P_text ==
    <<"t","e","x","t">>

\* "filename"
P_filename ==
    <<"f","i","l","e","n","a","m","e">>

\* "add_timestamp"
P_add_timestamp ==
    <<"a","d","d","_","t","i","m","e","s","t","a","m","p">>

\* "save"
P_save ==
    <<"s","a","v","e">>

\* "recipient_id"
P_recipient_id ==
    <<"r","e","c","i","p","i","e","n","t","_","i","d">>

\* "subject"
P_subject ==
    <<"s","u","b","j","e","c","t">>

\* "message"
P_message ==
    <<"m","e","s","s","a","g","e">>

\* "attachment_path"
P_attachment_path ==
    <<"a","t","t","a","c","h","m","e","n","t","_","p","a","t","h">>

\* "factor"
P_factor ==
    <<"f","a","c","t","o","r">>

\* "label"
P_label ==
    <<"l","a","b","e","l">>

\* "FUNCTION_CALL:"
T_FUNCTION_CALL ==
    <<"F","U","N","C","T","I","O","N","_","C","A","L","L",":">>

\* "FINAL_ANSWER:"
T_FINAL_ANSWER ==
    <<"F","I","N","A","L","_","A","N","S","W","E","R",":">>

\* "successfully"
T_successfully ==
    <<"s","u","c","c","e","s","s","f","u","l","l","y">>

\* "TOOL_CALL: "
T_TOOL_CALL ==
    <<"T","O","O","L","_","C","A","L","L",":"," ">>

\* " args="
T_args ==
    <<" ","a","r","g","s","=">>

\* "Error"
T_Error ==
    <<"E","r","r","o","r">>

\* "TOOL_RESULT: "
T_TOOL_RESULT ==
    <<"T","O","O","L","_","R","E","S","U","L","T",":"," ">>

(***************************************************************************)
(* Tool descriptors.  A descriptor is [name, properties]; properties is    *)
(* inputSchema["properties"] in declaration order, each entry a parameter  *)
(* name with its declared "type" (NoType when the schema gives none).      *)
(***************************************************************************)
NoType == "absent"

Property(pname, type) == [pname |-> pname, type |-> type]

Tool(name, properties) == [name |-> name, properties |-> properties]

\* What list_tools() returns for mcp-server.py: its five @mcp.tool()
\* functions with the JSON types of their Python annotations.
ppt_tools ==
    << Tool(N_open_powerpoint, <<>>),
       Tool(N_draw_rectangle,
            << Property(P_x, "integer"), Property(P_y, "integer"),
               Property(P_width, "integer"), Property(P_height, "integer") >>),
       Tool(N_draw_rectangle_with_text,
            << Property(P_text, "string"),
               Property(P_x, "integer"), Property(P_y, "integer"),
               Property(P_width, "integer"), Property(P_height, "integer") >>),
       Tool(N_save_presentation,
            << Property(P_filename, "string"),
               Property(P_add_timestamp, "boolean") >>),
       Tool(N_close_powerpoint,
            << Property(P_save, "boolean"), Property(P_filename, "string") >>) >>

\* What list_tools() may return for the Gmail server: the two finishing
\* tools the loop names, and a descriptor with a number parameter and an
\* untyped one.
gmail_tools_plain ==
    << Tool(N_send_email,
            << Property(P_recipient_id, "string"),
               Property(P_subject, "string"),
               Property(P_message, "string") >>),
       Tool(N_send_email_outlook,
            << Property(P_recipient_id, "string"),
               Property(P_subject, "string"),
               Property(P_message, "string"),
               Property(P_attachment_path, "string") >>),
       Tool(N_set_zoom,
            << Property(P_factor, "number"), Property(P_label, NoType) >>) >>

\* The same list from a Gmail server that also declares a tool named
\* draw_rectangle, with a schema of its own.
gmail_tools_shadowing ==
    gmail_tools_plain
    \o << Tool(N_draw_rectangle, << Property(P_label, "string") >>) >>

GmailToolLists == { gmail_tools_plain, gmail_tools_shadowing }

PPT == "ppt_session"

GMAIL == "gmail_session"

NoSession == "None"

tool_names(tools) == { tools[i].name : i \in 1..Len(tools) }

\* The dictionary built by the two registration loops: the Gmail loop runs
\* second and overwrites an entry the PowerPoint loop made.
build_tool_to_session(ppt, gmail) ==
    [name \in tool_names(ppt) \cup tool_names(gmail) |->
        IF name \in tool_names(gmail) THEN GMAIL ELSE PPT]

\* The list built by the two registration loops.
build_all_tools(ppt, gmail) == ppt \o gmail

(***************************************************************************)
(* Parsing a FUNCTION_CALL reply and coercing its arguments.               *)
(***************************************************************************)

\* response_text.split(":", 1)[1]
function_info(text) == split_once(text, ":")[2]

\* The split without the strip of each piece.
parts_unstripped(text) == split(function_info(text), "|")

\* [p.strip() for p in function_info.split("|")]
parts(text) ==
    LET raw == split(function_info(text), "|")
    IN  [i \in 1..Len(raw) |-> strip(raw[i])]

\* func_name, with a trailing "()" removed
parsed_func_name(text) ==
    LET name == parts(text)[1]
    IN  IF endswith(name, <<"(", ")">>)
        THEN SubSeq(name, 1, Len(name) - 2)
        ELSE name

\* params = parts[1:]
parsed_params(text) == Tail(parts(text))

\* tool_to_session.get(func_name)
get_session(tts, name) == IF name \in DOMAIN tts THEN tts[name] ELSE NoSession

\* next((t for t in all_tools if t.name == func_name), None), as the index
\* of the first descriptor of that name; 0 stands for None
tool_index(all, name) ==
    IF \E i \in 1..Len(all) : all[i].name = name
    THEN CHOOSE i \in 1..Len(all) :
            all[i].name = name /\ \A j \in 1..(i - 1) : all[j].name # name
    ELSE 0

\* The raw value with its key left on.
strip_key_kept(raw_value) == raw_value

\* if "=" in raw_value: _, raw_value = raw_value.split("=", 1)
strip_key(raw_value) ==
    IF has_char(raw_value, "=") THEN split_once(raw_value, "=")[2]
    ELSE raw_value

\* pinfo.get("type", "string")
param_type(pinfo) == IF pinfo.type = NoType THEN "string" ELSE pinfo.type

\* Whether the conversion of one raw value to ptype raises ValueError.
conversion_raises(ptype, raw_value) ==
    \/ ptype = "integer" /\ ~int_ok(raw_value)
    \/ ptype = "number" /\ ~float_ok(raw_value)

\* A conversion that ignores ptype.
convert_untyped(ptype, raw_value) == StrVal(raw_value)

\* int(raw_value), float(raw_value) or str(raw_value) according to ptype
convert(ptype, raw_value) ==
    CASE ptype = "integer" -> IntVal(int_value(raw_value))
      [] ptype = "number" -> float_value(raw_value)
      [] OTHER -> StrVal(raw_value)

\* A coercion loop that wants exactly one raw argument per parameter.
RECURSIVE coerce_strict(_, _, _)
coerce_strict(properties, params, args) ==
    IF properties = <<>> \/ params = <<>>
    THEN [raised |-> properties # <<>> \/ params # <<>>, arguments |-> args]
    ELSE LET pinfo == Head(properties)
             raw_value == strip_key(Head(params))
             ptype == param_type(pinfo)
         IN  IF conversion_raises(ptype, raw_value)
             THEN [raised |-> TRUE, arguments |-> args]
             ELSE coerce_strict(Tail(properties), Tail(params),
                                Append(args,
                                       [pname |-> pinfo.pname,
                                        value |-> convert(ptype, raw_value)]))

\* The coercion loop: one raw argument is popped per declared parameter
\* until either list is exhausted.  raised is TRUE when a conversion raised;
\* arguments is the dictionary built up to that point.
RECURSIVE coerce(_, _, _)
coerce(properties, params, args) ==
    IF properties = <<>> \/ params = <<>>
    THEN [raised |-> FALSE, arguments |-> args]
    ELSE LET pinfo == Head(properties)
             raw_value == strip_key(Head(params))
             ptype == param_type(pinfo)
         IN  IF conversion_raises(ptype, raw_value)
             THEN [raised |-> TRUE, arguments |-> args]
             ELSE coerce(Tail(properties), Tail(params),
                         Append(args,
                                [pname |-> pinfo.pname,
                                 value |-> convert(ptype, raw_value)]))

\* A signature of the tool name alone.
call_signature_name_only(name, args) == name

\* call_signature = f"{func_name}|{arguments}"
call_signature(name, args) ==
    name \o <<"|">> \o repr_dict(args)

(***************************************************************************)
(* The inputs of a session: the operator's task, the replies the language  *)
(* model may give, and the results a tool session may return.              *)
(***************************************************************************)
\* "draw a box"
query_draw ==
    <<"d","r","a","w"," ","a"," ","b","o","x">>

\* "mail it"
query_mail ==
    <<"m","a","i","l"," ","i","t">>

\* "FUNCTION_CALL: open_powerpoint"
reply_open ==
    <<"F","U","N","C","T","I","O","N","_","C","A","L","L",":"," ","o","p",
      "e","n","_","p","o","w","e","r","p","o","i","n","t">>

\* "FUNCTION_CALL: open_powerpoint()"
reply_open_parens ==
    <<"F","U","N","C","T","I","O","N","_","C","A","L","L",":"," ","o","p",
      "e","n","_","p","o","w","e","r","p","o","i","n","t","(",")">>

\* "FUNCTION_CALL: open_powerpoint|now"
reply_open_surplus ==
    <<"F","U","N","C","T","I","O","N","_","C","A","L","L",":"," ","o","p",
      "e","n","_","p","o","w","e","r","p","o","i","n","t","|","n","o","w">>

\* "FUNCTION_CALL: draw_rectangle|x=10|07"
reply_draw ==
    <<"F","U","N","C","T","I","O","N","_","C","A","L","L",":"," ","d","r",
      "a","w","_","r","e","c","t","a","n","g","l","e","|","x","=","1","0",
      "|","0","7">>

\* "FUNCTION_CALL: draw_rectangle | 10 | 7 "
reply_draw_spaced ==
    <<"F","U","N","C","T","I","O","N","_","C","A","L","L",":"," ","d","r",
      "a","w","_","r","e","c","t","a","n","g","l","e"," ","|"," ","1","0",
      " ","|"," ","7"," ">>

\* "FUNCTION_CALL: draw_rectangle|10"
reply_draw_short ==
    <<"F","U","N","C","T","I","O","N","_","C","A","L","L",":"," ","d","r",
      "a","w","_","r","e","c","t","a","n","g","l","e","|","1","0">>

\* "FUNCTION_CALL: draw_rectangle|10|ten"
reply_draw_bad ==
    <<"F","U","N","C","T","I","O","N","_","C","A","L","L",":"," ","d","r",
      "a","w","_","r","e","c","t","a","n","g","l","e","|","1","0","|","t",
      "e","n">>

\* "FUNCTION_CALL: set_zoom|3.14|a=b"
reply_zoom ==
    <<"F","U","N","C","T","I","O","N","_","C","A","L","L",":"," ","s","e",
      "t","_","z","o","o","m","|","3",".","1","4","|","a","=","b">>

\* "FUNCTION_CALL: set_zoom|3.14|label=a=b"
reply_zoom_keyed ==
    <<"F","U","N","C","T","I","O","N","_","C","A","L","L",":"," ","s","e",
      "t","_","z","o","o","m","|","3",".","1","4","|","l","a","b","e","l",
      "=","a","=","b">>

\* "FUNCTION_CALL: set_zoom|big"
reply_zoom_bad ==
    <<"F","U","N","C","T","I","O","N","_","C","A","L","L",":"," ","s","e",
      "t","_","z","o","o","m","|","b","i","g">>

\* "FUNCTION_CALL: send-email|a@b.c|Hi|Done"
reply_send ==
    <<"F","U","N","C","T","I","O","N","_","C","A","L","L",":"," ","s","e",
      "n","d","-","e","m","a","i","l","|","a","@","b",".","c","|","H","i",
      "|","D","o","n","e">>

\* "FUNCTION_CALL: delete_all|1"
reply_unknown ==
    <<"F","U","N","C","T","I","O","N","_","C","A","L","L",":"," ","d","e",
      "l","e","t","e","_","a","l","l","|","1">>

\* "FINAL_ANSWER: done"
reply_final ==
    <<"F","I","N","A","L","_","A","N","S","W","E","R",":"," ","d","o","n",
      "e">>

\* "  FINAL_ANSWER: done\n"
reply_final_padded ==
    <<" "," ","F","I","N","A","L","_","A","N","S","W","E","R",":"," ","d",
      "o","n","e","\n">>

\* "I will open PowerPoint"
reply_malformed ==
    <<"I"," ","w","i","l","l"," ","o","p","e","n"," ","P","o","w","e","r",
      "P","o","i","n","t">>

\* "Done Successfully"
text_ok ==
    <<"D","o","n","e"," ","S","u","c","c","e","s","s","f","u","l","l","y">>

\* "Error: failed"
text_error ==
    <<"E","r","r","o","r",":"," ","f","a","i","l","e","d">>

\* "sent successfully"
text_plain ==
    <<"s","e","n","t"," ","s","u","c","c","e","s","s","f","u","l","l","y">>

Queries == { query_draw, query_mail }

\* The sessions looked at: a task and the tool list the Gmail server gives.
Sessions ==
    { << query_draw, gmail_tools_plain >>,
      << query_mail, gmail_tools_shadowing >> }

Replies ==
    { reply_open, reply_open_parens, reply_open_surplus,
      reply_draw, reply_draw_spaced, reply_draw_short, reply_draw_bad,
      reply_zoom, reply_zoom_keyed, reply_zoom_bad, reply_send,
      reply_unknown,
      reply_final, reply_final_padded, reply_malformed }

\* One item of result.content; an item without a text attribute (an image,
\* say) has has_text = FALSE.
TextItem(text) == [has_text |-> TRUE, text |-> text]

OtherItem == [has_text |-> FALSE, text |-> <<>>]

\* A tool result: with a content attribute (a list of items), or without
\* one, in which case only str(result) is used.
ContentResult(content) ==
    [has_content |-> TRUE, content |-> content, str |-> <<>>]

OpaqueResult(str) == [has_content |-> FALSE, content |-> <<>>, str |-> str]

NoResult == [has_content |-> FALSE, content |-> <<>>, str |-> <<"<none>">>]

ToolResults ==
    { ContentResult(<<TextItem(text_ok)>>),
      ContentResult(<<OtherItem, TextItem(text_error)>>),
      OpaqueResult(text_plain) }

(***************************************************************************)
(* What one reply leads to, up to the duplicate test: the text is          *)
(* stripped, classified by its prefix, and a FUNCTION_CALL is parsed,      *)
(* resolved against the registry and coerced.                              *)
(***************************************************************************)
Outcome(kind, name, session, args) ==
    [kind |-> kind, func_name |-> name, tool_session |-> session,
     arguments |-> args,
     call_signature |->
        IF kind = "call" THEN call_signature(name, args) ELSE <<>>]

interpret(text, all, tts) ==
    LET t == strip(text)
        name == parsed_func_name(t)
        idx == tool_index(all, name)
        session == get_session(tts, name)
        c == coerce(all[idx].properties, parsed_params(t), <<>>)
    IN  IF startswith(t, T_FUNCTION_CALL)
        THEN IF idx = 0 \/ session = NoSession
             THEN Outcome("unknown_tool", name, NoSession, <<>>)
             ELSE IF c.raised
             THEN Outcome("coercion_error", name, session, c.arguments)
             ELSE Outcome("call", name, session, c.arguments)
        ELSE IF startswith(t, T_FINAL_ANSWER)
        THEN Outcome("final_answer", <<>>, NoSession, <<>>)
        ELSE Outcome("no_branch", <<>>, NoSession, <<>>)

\* interpret, tabulated once for every registry and reply of the model.
Interpretation ==
    [g \in GmailToolLists |->
        [text \in Replies |->
            interpret(text, build_all_tools(ppt_tools, g),
                      build_tool_to_session(ppt_tools, g))]]

(***************************************************************************)
(* The state of a session.                                                 *)
(***************************************************************************)
\* max_Iterations = 15
max_Iterations == 15

\* The most tool calls the modelled language model asks for in a session.
MaxCalls == 2


vars ==
    << pc, turn, query, gmail_tools, last_response, iteration_responses,
       executed_calls, current_query, response_text, func_name, arguments,
       result, reported, model_calls, tool_calls,
       model_results, tool_results, last_turn >>

all_tools == build_all_tools(ppt_tools, gmail_tools)

tool_to_session == build_tool_to_session(ppt_tools, gmail_tools)

\* last_response is None, a list of str (outputs) or a str (str(result)).
ResponseNone == [kind |-> "None", outputs |-> <<>>, text |-> <<>>]

ResponseList(outputs) == [kind |-> "list", outputs |-> outputs, text |-> <<>>]

ResponseStr(text) == [kind |-> "str", outputs |-> <<>>, text |-> text]

\* str(last_response) as the transcript's f-string renders it
str_response(r) ==
    CASE r.kind = "list" -> repr_list(r.outputs)
      [] r.kind = "str" -> r.text
      [] OTHER -> <<"N", "o", "n", "e">>

NoText == <<"<none>">>

\* A turn as the history keeps it.
Turn(prompt, reply, outcome) ==
    [prompt |-> prompt, reply |-> reply, outcome |-> outcome]

NoTurn == Turn(NoText, NoText, "nothing")

(***************************************************************************)
(* The PowerPoint tool server (mcp-server.py): its module globals, the     *)
(* presentation they refer to, and one action per tool function.  Every   *)
(* PowerPoint (COM) operation of a tool may raise; fail names the one that *)
(* does.                                                                   *)
(***************************************************************************)
server_vars ==
    << ppt_app, ppt_presentation, presentation_open, slides, shapes, saved,
       tool_name, tool_response, opened >>

\* The most shapes drawn on one slide.
MaxShapes == 2

\* ppt_app = None
NoApp == "None"

App == "PowerPoint.Application"

\* The module never assigns ppt_presentation: the global does not exist
\* until open_powerpoint assigns it.
Undefined == "undefined"

NoPresentation == "None"

Presentation == "Presentation"

\* return {"content": [TextContent(type="text", text=...)]}
Response(text) == [raised |-> FALSE, exception |-> "", content |-> text]

\* An exception that leaves the tool function.
Raised(exception) ==
    [raised |-> TRUE, exception |-> exception, content |-> ""]

NoResponse == [raised |-> FALSE, exception |-> "", content |-> "<none>"]

\* Reading the global ppt_presentation before any assignment to it.
NameError == "NameError: name 'ppt_presentation' is not defined"

NotOpen == "Error: PowerPoint is not open. Please run open_powerpoint() first."

NoSlides == "Error: No slides available. Please add a slide first."

\* The state of the server process when it starts.
ServerInit ==
    /\ ppt_app = NoApp
    /\ ppt_presentation = Undefined
    /\ presentation_open = FALSE
    /\ slides = 0
    /\ shapes = 0
    /\ saved = FALSE
    /\ tool_name = "<none>"
    /\ tool_response = NoResponse
    /\ opened = FALSE

OpenFailures ==
    { "none", "CoInitialize", "Dispatch", "Visible", "Presentations.Add",
      "Slides.Add", "Presentations.Count" }

\* open_powerpoint(): the whole body is inside try/except Exception.
open_powerpoint(close_fails, fail) ==
    LET closing == ppt_app # NoApp /\ ppt_presentation # NoPresentation
        still_open ==
            IF closing /\ ~close_fails THEN FALSE ELSE presentation_open
        error == Response("Error opening PowerPoint")
    IN  /\ UNCHANGED vars
        /\ tool_name' = "open_powerpoint"
        /\ IF fail = "CoInitialize"
              \/ (ppt_app # NoApp /\ ppt_presentation = Undefined)
           THEN /\ tool_response' = error
                /\ UNCHANGED << ppt_app, ppt_presentation, presentation_open,
                                slides, shapes, saved >>
           ELSE IF fail = "Dispatch"
           THEN /\ tool_response' = error
                /\ presentation_open' = still_open
                /\ UNCHANGED << ppt_app, ppt_presentation, slides, shapes,
                                saved >>
           ELSE IF fail \in { "Visible", "Presentations.Add" }
           THEN /\ tool_response' = error
                /\ ppt_app' = App
                /\ presentation_open' = still_open
                /\ UNCHANGED << ppt_presentation, slides, shapes, saved >>
           ELSE /\ ppt_app' = App
                /\ ppt_presentation' = Presentation
                /\ presentation_open' = TRUE
                /\ shapes' = 0
                /\ saved' = FALSE
                /\ slides' = IF fail = "Slides.Add" THEN 0 ELSE 1
                /\ tool_response' =
                      IF fail = "none"
                      THEN Response("PowerPoint opened successfully")
                      ELSE error
        /\ opened' = (opened \/ tool_response' # error)

\* if ppt_app is None or ppt_presentation is None: the test the three
\* drawing and saving tools make before their try.
guard(when_open, not_open, name_error) ==
    IF ppt_app = NoApp THEN not_open
    ELSE IF ppt_presentation = Undefined THEN name_error
    ELSE IF ppt_presentation = NoPresentation THEN not_open
    ELSE when_open

\* A tool call that ends before it touches PowerPoint.
Returns(response) ==
    /\ tool_response' = response
    /\ UNCHANGED << ppt_app, ppt_presentation, presentation_open, slides,
                    shapes, saved >>

DrawFailures == { "none", "Slides.Count", "AddShape" }

\* draw_rectangle(x, y, width, height)
draw_rectangle(fail) ==
    /\ UNCHANGED vars
    /\ UNCHANGED opened
    /\ tool_name' = "draw_rectangle"
    /\ guard(
         IF ~presentation_open \/ fail = "Slides.Count"
         THEN Returns(Response("Error drawing rectangle"))
         ELSE IF slides = 0 THEN Returns(Response(NoSlides))
         ELSE IF fail = "AddShape"
         THEN Returns(Response("Error drawing rectangle"))
         ELSE /\ shapes < MaxShapes
              /\ shapes' = shapes + 1
              /\ tool_response' = Response("Rectangle drawn")
              /\ UNCHANGED << ppt_app, ppt_presentation, presentation_open,
                              slides, saved >>,
         Returns(Response(NotOpen)),
         Returns(Raised(NameError)))

DrawTextFailures == DrawFailures \cup { "TextFrame" }

\* draw_rectangle_with_text(text, x, y, width, height)
draw_rectangle_with_text(fail) ==
    /\ UNCHANGED vars
    /\ UNCHANGED opened
    /\ tool_name' = "draw_rectangle_with_text"
    /\ guard(
         IF ~presentation_open \/ fail = "Slides.Count"
         THEN Returns(Response("Error drawing rectangle with text"))
         ELSE IF slides = 0 THEN Returns(Response(NoSlides))
         ELSE IF fail = "AddShape"
         THEN Returns(Response("Error drawing rectangle with text"))
         ELSE /\ shapes < MaxShapes
              /\ shapes' = shapes + 1
              /\ tool_response' =
                    IF fail = "TextFrame"
                    THEN Response("Error drawing rectangle with text")
                    ELSE Response("Rectangle with text created")
              /\ UNCHANGED << ppt_app, ppt_presentation, presentation_open,
                              slides, saved >>,
         Returns(Response(NotOpen)),
         Returns(Raised(NameError)))

SaveFailures == { "none", "SaveAs" }

\* save_presentation(filename, add_timestamp)
save_presentation(fail) ==
    /\ UNCHANGED vars
    /\ UNCHANGED opened
    /\ tool_name' = "save_presentation"
    /\ guard(
         IF ~presentation_open \/ fail = "SaveAs"
         THEN Returns(Response("Error saving presentation"))
         ELSE /\ saved' = TRUE
              /\ tool_response' = Response("Presentation saved successfully")
              /\ UNCHANGED << ppt_app, ppt_presentation, presentation_open,
                              slides, shapes >>,
         Returns(Response(NotOpen)),
         Returns(Raised(NameError)))

CloseFailures == { "none", "Save", "Close", "Quit" }

\* close_powerpoint(save, filename): after the test of ppt_app the whole
\* body is inside try/except Exception.
close_powerpoint(save, fail) ==
    LET error == Response("Error closing PowerPoint")
        has_presentation == ppt_presentation = Presentation
    IN  /\ UNCHANGED vars
        /\ tool_name' = "close_powerpoint"
        /\ IF ppt_app = NoApp
           THEN Returns(Response("PowerPoint is not open"))
           ELSE IF ppt_presentation = Undefined
           THEN Returns(error)
           ELSE IF save /\ has_presentation
                   /\ (~presentation_open \/ fail = "Save")
           THEN Returns(error)
           ELSE IF has_presentation
                   /\ (~presentation_open \/ fail = "Close")
           THEN /\ tool_response' = error
                /\ saved' = (saved \/ save)
                /\ UNCHANGED << ppt_app, ppt_presentation,
                                presentation_open, slides, shapes >>
           ELSE IF fail = "Quit"
           THEN /\ tool_response' = error
                /\ saved' = (saved \/ (save /\ has_presentation))
                /\ presentation_open' = FALSE
                /\ UNCHANGED << ppt_app, ppt_presentation, slides, shapes >>
           ELSE /\ tool_response' = Response("PowerPoint closed successfully")
                /\ saved' = (saved \/ (save /\ has_presentation))
                /\ presentation_open' = FALSE
                /\ ppt_app' = NoApp
                /\ ppt_presentation' = NoPresentation
                /\ UNCHANGED << slides, shapes >>
        /\ opened' =
              /\ opened
              /\ tool_response' # Response("PowerPoint closed successfully")

ServerNext ==
    \/ \E close_fails \in BOOLEAN, fail \in OpenFailures :
          open_powerpoint(close_fails, fail)
    \/ \E fail \in DrawFailures : draw_rectangle(fail)
    \/ \E fail \in DrawTextFailures : draw_rectangle_with_text(fail)
    \/ \E fail \in SaveFailures : save_presentation(fail)
    \/ \E save \in BOOLEAN, fail \in CloseFailures :
          close_powerpoint(save, fail)

(***************************************************************************)
(* The session of the client.                                              *)
(***************************************************************************)
\* reset_state(), the registry loops and input(): the state at the top of
\* the for loop; the two servers have just been started.
Init ==
    /\ pc = "loop"
    /\ turn = 0
    /\ \E session \in Sessions :
          /\ query = session[1]
          /\ gmail_tools = session[2]
    /\ last_response = ResponseNone
    /\ iteration_responses = <<>>
    /\ executed_calls = {}
    /\ current_query = NoText
    /\ response_text = NoText
    /\ func_name = NoText
    /\ arguments = <<>>
    /\ result = NoResult
    /\ reported = "nothing"
    /\ model_calls = 0
    /\ tool_calls = <<>>
    /\ model_results = 0
    /\ tool_results = 0
    /\ last_turn = NoTurn
    /\ ServerInit

(***************************************************************************)
(* The steps of a turn.                                                    *)
(***************************************************************************)

\* A conversation part that shows the task and the last result only.
build_current_query_last_only(q, last, responses) ==
    IF last.kind = "None" THEN q
    ELSE q \o <<"\n">> \o str_response(last)

\* The conversation part of the prompt: the task alone while last_response
\* is None, afterwards the task and the joined transcript.
build_current_query(q, last, responses) ==
    IF last.kind = "None" THEN q
    ELSE q \o <<"\n">> \o join("\n", responses)

\* A duplicate test that never finds the signature.
is_duplicate_never(signature, executed) == FALSE

\* call_signature in executed_calls
is_duplicate(signature, executed) == signature \in executed

\* The signature is not recorded.
add_call_forgotten(signature, executed) == executed

\* executed_calls.add(call_signature)
add_call(signature, executed) == executed \cup {signature}

\* [c.text for c in result.content if hasattr(c, "text")]
RECURSIVE extract_outputs(_)
extract_outputs(content) ==
    IF content = <<>> THEN <<>>
    ELSE IF Head(content).has_text
    THEN <<Head(content).text>> \o extract_outputs(Tail(content))
    ELSE extract_outputs(Tail(content))

\* for iteration in range(max_Iterations), one iteration too many
has_next_iteration_inclusive(t) == t <= max_Iterations

\* for iteration in range(max_Iterations): whether an iteration is left
\* after t of them
has_next_iteration(t) == t < max_Iterations

FinishingTools == { N_send_email_outlook, N_send_email }

\* The finishing test without o.lower().
finishing_trigger_case_sensitive(name, outputs) ==
    /\ name \in FinishingTools
    /\ \E i \in 1..Len(outputs) : contains(outputs[i], T_successfully)

\* func_name in [...] and any("successfully" in o.lower() for o in outputs)
finishing_trigger(name, outputs) ==
    /\ name \in FinishingTools
    /\ \E i \in 1..Len(outputs) : contains(lower(outputs[i]), T_successfully)

\* The two transcript lines in the other order.
history_entries_result_first(name, args, last) ==
    << T_TOOL_RESULT \o str_response(last),
       T_TOOL_CALL \o name \o T_args \o repr_dict(args) >>

\* The two transcript lines of a completed call.
history_entries(name, args, last) ==
    << T_TOOL_CALL \o name \o T_args \o repr_dict(args),
       T_TOOL_RESULT \o str_response(last) >>

\* The top of the loop with the iteration count shown in the prompt.
CallModel_numbered ==
    /\ UNCHANGED server_vars
    /\ UNCHANGED << model_results, tool_results >>
    /\ UNCHANGED last_turn
    /\ pc = "loop"
    /\ has_next_iteration(turn)
    /\ turn' = turn + 1
    /\ current_query' =
          build_current_query(query, last_response, iteration_responses)
          \o <<"\n">> \o [i \in 1..turn |-> "+"]
    /\ model_calls' = model_calls + 1
    /\ pc' = "llm"
    /\ response_text' = NoText
    /\ func_name' = NoText
    /\ arguments' = <<>>
    /\ result' = NoResult
    /\ reported' = "nothing"
    /\ UNCHANGED << query, gmail_tools, last_response, iteration_responses,
                    executed_calls, tool_calls >>

\* Top of the for loop: the prompt is built and the model is called.  The
\* locals of the previous turn are dead here (each is assigned before it is
\* read again) and are cleared.
CallModel ==
    /\ UNCHANGED server_vars
    /\ UNCHANGED << model_results, tool_results >>
    /\ UNCHANGED last_turn
    /\ pc = "loop"
    /\ has_next_iteration(turn)
    /\ turn' = turn + 1
    /\ current_query' =
          build_current_query(query, last_response, iteration_responses)
    /\ model_calls' = model_calls + 1
    /\ pc' = "llm"
    /\ response_text' = NoText
    /\ func_name' = NoText
    /\ arguments' = <<>>
    /\ result' = NoResult
    /\ reported' = "nothing"
    /\ UNCHANGED << query, gmail_tools, last_response, iteration_responses,
                    executed_calls, tool_calls >>

\* range(max_Iterations) is used up: the loop ends without a message.
LoopExhausted ==
    /\ UNCHANGED server_vars
    /\ UNCHANGED << model_results, tool_results >>
    /\ UNCHANGED last_turn
    /\ pc = "loop"
    /\ ~has_next_iteration(turn)
    /\ pc' = "done"
    /\ UNCHANGED << turn, query, gmail_tools, last_response,
                    iteration_responses, executed_calls, current_query,
                    response_text, func_name, arguments, result, reported,
                    model_calls, tool_calls >>

\* The except branch with continue in place of break.
ModelRaises_continue ==
    /\ UNCHANGED server_vars
    /\ model_results' = model_results + 1
    /\ UNCHANGED tool_results
    /\ UNCHANGED last_turn
    /\ pc = "llm"
    /\ pc' = "loop"
    /\ reported' = "exception"
    /\ UNCHANGED << turn, query, gmail_tools, last_response,
                    iteration_responses, executed_calls, current_query,
                    response_text, func_name, arguments, result,
                    model_calls, tool_calls >>

\* generate_with_timeout re-raises the timeout or the client's exception
\* (or response.text is None): except Exception prints and breaks.
ModelRaises ==
    /\ UNCHANGED server_vars
    /\ model_results' = model_results + 1
    /\ UNCHANGED tool_results
    /\ UNCHANGED last_turn
    /\ pc = "llm"
    /\ pc' = "done"
    /\ reported' = "exception"
    /\ UNCHANGED << turn, query, gmail_tools, last_response,
                    iteration_responses, executed_calls, current_query,
                    response_text, func_name, arguments, result,
                    model_calls, tool_calls >>

\* Neither startswith test matches: the if/elif has no else, the body of
\* the iteration ends and the for loop goes on.
ReplyNoBranch(o) ==
    /\ o.kind = "no_branch"
    /\ pc' = "loop"
    /\ UNCHANGED << func_name, arguments, reported, executed_calls,
                    tool_calls >>

\* The FINAL_ANSWER branch without its break.
ReplyFinalAnswer_continue(o) ==
    /\ o.kind = "final_answer"
    /\ pc' = "loop"
    /\ reported' = "final_answer"
    /\ UNCHANGED << func_name, arguments, executed_calls, tool_calls >>

\* elif response_text.startswith("FINAL_ANSWER:"): print, break
ReplyFinalAnswer(o) ==
    /\ o.kind = "final_answer"
    /\ pc' = "done"
    /\ reported' = "final_answer"
    /\ UNCHANGED << func_name, arguments, executed_calls, tool_calls >>

\* The unknown-tool branch with continue in place of break.
ReplyUnknownTool_continue(o) ==
    /\ o.kind = "unknown_tool"
    /\ func_name' = o.func_name
    /\ pc' = "loop"
    /\ reported' = "unknown_tool"
    /\ UNCHANGED << arguments, executed_calls, tool_calls >>

\* if not tool or not tool_session: print, break
ReplyUnknownTool(o) ==
    /\ o.kind = "unknown_tool"
    /\ func_name' = o.func_name
    /\ pc' = "done"
    /\ reported' = "unknown_tool"
    /\ UNCHANGED << arguments, executed_calls, tool_calls >>

\* A ValueError of int() or float() caught with continue in place of break.
ReplyCoercionError_continue(o) ==
    /\ o.kind = "coercion_error"
    /\ func_name' = o.func_name
    /\ arguments' = o.arguments
    /\ pc' = "loop"
    /\ reported' = "exception"
    /\ UNCHANGED << executed_calls, tool_calls >>

\* int() or float() raises ValueError inside the try: print, break
ReplyCoercionError(o) ==
    /\ o.kind = "coercion_error"
    /\ func_name' = o.func_name
    /\ arguments' = o.arguments
    /\ pc' = "done"
    /\ reported' = "exception"
    /\ UNCHANGED << executed_calls, tool_calls >>

\* The duplicate branch with break in place of continue.
ReplyDuplicate_break(o) ==
    /\ o.kind = "call"
    /\ is_duplicate(o.call_signature, executed_calls)
    /\ func_name' = o.func_name
    /\ arguments' = o.arguments
    /\ pc' = "done"
    /\ reported' = "skipping_duplicate"
    /\ UNCHANGED << executed_calls, tool_calls >>

\* if call_signature in executed_calls: print, continue
ReplyDuplicate(o) ==
    /\ o.kind = "call"
    /\ is_duplicate(o.call_signature, executed_calls)
    /\ func_name' = o.func_name
    /\ arguments' = o.arguments
    /\ pc' = "loop"
    /\ reported' = "skipping_duplicate"
    /\ UNCHANGED << executed_calls, tool_calls >>

\* The tool call started without awaiting it: the loop goes on to its next
\* iteration.
ReplyDispatch_not_awaited(o) ==
    /\ o.kind = "call"
    /\ ~is_duplicate(o.call_signature, executed_calls)
    /\ Len(tool_calls) < MaxCalls
    /\ func_name' = o.func_name
    /\ arguments' = o.arguments
    /\ executed_calls' = add_call(o.call_signature, executed_calls)
    /\ tool_calls' =
          Append(tool_calls,
                 [tool_session |-> o.tool_session, func_name |-> o.func_name,
                  arguments |-> o.arguments])
    /\ pc' = "loop"
    /\ reported' = "invoking_tool"

\* executed_calls.add(call_signature); await tool_session.call_tool(...)
ReplyDispatch(o) ==
    /\ o.kind = "call"
    /\ ~is_duplicate(o.call_signature, executed_calls)
    /\ Len(tool_calls) < MaxCalls
    /\ func_name' = o.func_name
    /\ arguments' = o.arguments
    /\ executed_calls' = add_call(o.call_signature, executed_calls)
    /\ tool_calls' =
          Append(tool_calls,
                 [tool_session |-> o.tool_session, func_name |-> o.func_name,
                  arguments |-> o.arguments])
    /\ pc' = "tool"
    /\ reported' = "invoking_tool"

\* The model call returns text: the body of the try up to the next await.
ModelReplies(text) ==
    /\ UNCHANGED server_vars
    /\ model_results' = model_results + 1
    /\ UNCHANGED tool_results
    /\ UNCHANGED last_turn
    /\ pc = "llm"
    /\ response_text' = strip(text)
    /\ LET o == Interpretation[gmail_tools][text]
       IN  \/ ReplyNoBranch(o)
           \/ ReplyFinalAnswer(o)
           \/ ReplyUnknownTool(o)
           \/ ReplyCoercionError(o)
           \/ ReplyDuplicate(o)
           \/ ReplyDispatch(o)
    /\ UNCHANGED << turn, query, gmail_tools, last_response,
                    iteration_responses, current_query, result, model_calls >>

\* call_tool returns res, with the transcript appended before the
\* finishing check.
ToolReturns_append_first(res) ==
    /\ UNCHANGED server_vars
    /\ tool_results' = tool_results + 1
    /\ UNCHANGED model_results
    /\ UNCHANGED last_turn
    /\ pc = "tool"
    /\ result' = res
    /\ IF res.has_content
       THEN LET outputs == extract_outputs(res.content)
            IN  /\ last_response' = ResponseList(outputs)
                /\ iteration_responses' =
                      iteration_responses
                      \o history_entries(func_name, arguments,
                                         ResponseList(outputs))
                /\ IF finishing_trigger(func_name, outputs)
                   THEN pc' = "done" /\ reported' = "task_completed"
                   ELSE pc' = "loop" /\ reported' = "tool_result"
       ELSE /\ last_response' = ResponseStr(res.str)
            /\ pc' = "loop"
            /\ reported' = "tool_result"
            /\ iteration_responses' =
                  iteration_responses
                  \o history_entries(func_name, arguments,
                                     ResponseStr(res.str))
    /\ UNCHANGED << turn, query, gmail_tools, executed_calls, current_query,
                    response_text, func_name, arguments, model_calls,
                    tool_calls >>

\* call_tool returns res: the rest of the FUNCTION_CALL branch.
ToolReturns(res) ==
    /\ UNCHANGED server_vars
    /\ tool_results' = tool_results + 1
    /\ UNCHANGED model_results
    /\ UNCHANGED last_turn
    /\ pc = "tool"
    /\ result' = res
    /\ IF res.has_content
       THEN LET outputs == extract_outputs(res.content)
            IN  /\ last_response' = ResponseList(outputs)
                /\ IF finishing_trigger(func_name, outputs)
                   THEN /\ pc' = "done"
                        /\ reported' = "task_completed"
                        /\ UNCHANGED iteration_responses
                   ELSE /\ pc' = "loop"
                        /\ reported' = "tool_result"
                        /\ iteration_responses' =
                              iteration_responses
                              \o history_entries(func_name, arguments,
                                                 ResponseList(outputs))
       ELSE /\ last_response' = ResponseStr(res.str)
            /\ pc' = "loop"
            /\ reported' = "tool_result"
            /\ iteration_responses' =
                  iteration_responses
                  \o history_entries(func_name, arguments,
                                     ResponseStr(res.str))
    /\ UNCHANGED << turn, query, gmail_tools, executed_calls, current_query,
                    response_text, func_name, arguments, model_calls,
                    tool_calls >>

\* call_tool raises and the exception is recorded as the call's result.
ToolRaises_recorded ==
    /\ UNCHANGED server_vars
    /\ tool_results' = tool_results + 1
    /\ UNCHANGED model_results
    /\ UNCHANGED last_turn
    /\ pc = "tool"
    /\ pc' = "loop"
    /\ reported' = "exception"
    /\ iteration_responses' =
          iteration_responses
          \o history_entries(func_name, arguments, last_response)
    /\ UNCHANGED << turn, query, gmail_tools, last_response,
                    executed_calls, current_query, response_text, func_name,
                    arguments, result, model_calls, tool_calls >>

\* call_tool raises: except Exception prints and breaks.
ToolRaises ==
    /\ UNCHANGED server_vars
    /\ tool_results' = tool_results + 1
    /\ UNCHANGED model_results
    /\ UNCHANGED last_turn
    /\ pc = "tool"
    /\ pc' = "done"
    /\ reported' = "exception"
    /\ UNCHANGED << turn, query, gmail_tools, last_response,
                    iteration_responses, executed_calls, current_query,
                    response_text, func_name, arguments, result,
                    model_calls, tool_calls >>

Next ==
    \/ CallModel
    \/ LoopExhausted
    \/ ModelRaises
    \/ \E text \in Replies : ModelReplies(text)
    \/ \E res \in ToolResults : ToolReturns(res)
    \/ ToolRaises

all_vars == << vars, server_vars >>

\* A session of the client; the server process is not looked into.
Spec == Init /\ [][Next]_all_vars

\* The server alone, next to a client that has not begun its loop.
ServerStart ==
    /\ Init
    /\ query = query_draw
    /\ gmail_tools = gmail_tools_plain

\* The tool calls that reach the server, in any order and with any
\* failures of PowerPoint.
ServerSpec == ServerStart /\ [][ServerNext]_all_vars

\* The model call fails on a prompt the model has not just answered.
DeterministicModelRaises ==
    /\ last_turn.prompt # current_query
    /\ ModelRaises

\* The model call returns text, from a model whose reply is a function of
\* the prompt: to the prompt of the last turn it gives that turn's reply.
DeterministicModelReplies(text) ==
    /\ last_turn.prompt = current_query => strip(text) = last_turn.reply
    /\ UNCHANGED server_vars
    /\ model_results' = model_results + 1
    /\ UNCHANGED tool_results
    /\ pc = "llm"
    /\ response_text' = strip(text)
    /\ LET o == Interpretation[gmail_tools][text]
       IN  \/ ReplyNoBranch(o)
           \/ ReplyFinalAnswer(o)
           \/ ReplyUnknownTool(o)
           \/ ReplyCoercionError(o)
           \/ ReplyDuplicate(o)
           \/ ReplyDispatch(o)
    /\ last_turn' = Turn(current_query, response_text', reported')
    /\ UNCHANGED << turn, query, gmail_tools, last_response,
                    iteration_responses, current_query, result, model_calls >>

DeterministicNext ==
    \/ CallModel
    \/ LoopExhausted
    \/ DeterministicModelRaises
    \/ \E text \in Replies : DeterministicModelReplies(text)
    \/ \E res \in ToolResults : ToolReturns(res)
    \/ ToolRaises

\* The loop with a model whose reply is a function of the prompt alone.
DeterministicSpec == Init /\ [][DeterministicNext]_all_vars

(***************************************************************************)
(* Properties of the turn loop.                                            *)
(***************************************************************************)

\* The replies of the model as the loop holds them, stripped.
StrippedReplies == { strip(text) : text \in Replies }

\* What a held reply leads to under each registry, worked out once.
InterpretedTable ==
    [g \in GmailToolLists |->
        [line \in StrippedReplies |->
            interpret(line, build_all_tools(ppt_tools, g),
                      build_tool_to_session(ppt_tools, g))]]

Interpreted(line) == InterpretedTable[gmail_tools][line]

Call(name, args) == [func_name |-> name, arguments |-> args]

\* The signature of every call a reply can ask for, worked out once.
SignatureTable ==
    [c \in { Call(InterpretedTable[p[1]][p[2]].func_name,
                  InterpretedTable[p[1]][p[2]].arguments) :
               p \in { q \in GmailToolLists \X StrippedReplies :
                         InterpretedTable[q[1]][q[2]].kind = "call" } } |->
        call_signature(c.func_name, c.arguments)]

Signature(name, args) == SignatureTable[Call(name, args)]

\* The loop has ended: nothing is called any more.
Halted ==
    pc = "done" =>
        /\ pc' = "done"
        /\ model_calls' = model_calls
        /\ tool_calls' = tool_calls
        /\ iteration_responses' = iteration_responses
        /\ executed_calls' = executed_calls

\* A step in which the model call returned text.
ModelReplied == pc = "llm" /\ response_text' # NoText

\* A step in which the model call raised or timed out.
ModelFailed == pc = "llm" /\ pc' # "llm" /\ response_text' = NoText

\* A step in which call_tool returned a result.
ToolReturned == pc = "tool" /\ result' # NoResult

\* A step in which call_tool raised.
ToolFailed == pc = "tool" /\ pc' # "tool" /\ result' = NoResult

\* Nothing the session keeps changes, and nothing is called.
NothingDone ==
    /\ tool_calls' = tool_calls
    /\ model_calls' = model_calls
    /\ executed_calls' = executed_calls
    /\ iteration_responses' = iteration_responses
    /\ last_response' = last_response

\* ---- C1 ----------------------------------------------------------------
\* C1: call_tool is invoked at most once per (tool name, coerced argument
\* mapping) in a session, and a FUNCTION_CALL whose signature is already in
\* executed_calls is skipped: call_tool is not invoked for it.
C1_NoRepeatedCall ==
    \A i, j \in 1..Len(tool_calls) :
        ( /\ tool_calls[i].func_name = tool_calls[j].func_name
          /\ tool_calls[i].arguments = tool_calls[j].arguments ) => i = j

C1_SkipStep ==
    ModelReplied =>
        LET o == Interpreted(response_text')
        IN  (o.kind = "call" /\ o.call_signature \in executed_calls) =>
                /\ tool_calls' = tool_calls
                /\ pc' = "loop"
                /\ reported' = "skipping_duplicate"

C1_AtMostOncePerSignature == [] C1_NoRepeatedCall /\ [][C1_SkipStep]_vars

\* A turn was skipped as a duplicate of a call made earlier in the session.
C1_Witness ==
    /\ reported = "skipping_duplicate"
    /\ pc = "loop"
    /\ \E i \in 1..Len(tool_calls) :
          /\ tool_calls[i].func_name = func_name
          /\ tool_calls[i].arguments = arguments

\* ---- C2 ----------------------------------------------------------------
\* What is left of the session: three steps per remaining turn and the
\* steps left in the current one.
Measure ==
    3 * (max_Iterations - turn)
    + (CASE pc = "llm" -> 6 [] pc = "tool" -> 5 [] pc = "loop" -> 4
         [] OTHER -> 0)

\* C2: whatever the model replies, the loop makes at most 15 model calls
\* and then ends (every step uses up some of a bounded measure, and at the
\* end of the budget the only step left is the exit), and the turn counter
\* advances by exactly one per model call.
C2_Counted ==
    /\ model_calls <= max_Iterations
    /\ model_calls = turn
    /\ Measure >= 0

C2_Step ==
    /\ Measure' < Measure
    /\ model_calls' # model_calls =>
          (model_calls' = model_calls + 1 /\ turn' = turn + 1)
    /\ turn' # turn => model_calls' # model_calls
    /\ (pc = "loop" /\ turn = max_Iterations) => pc' = "done"
    /\ (pc' = "loop" /\ pc # "loop") => turn' = turn

C2_BudgetBound == [] C2_Counted /\ [][C2_Step]_vars

\* The budget was used up by turns that neither answered nor finished.
C2_Witness ==
    /\ pc = "done"
    /\ model_calls = max_Iterations
    /\ reported \in {"skipping_duplicate", "nothing", "tool_result"}

\* ---- C3 ----------------------------------------------------------------
\* The result has a content item whose text contains "successfully" in any
\* letter case.
ReportsSuccess(res) ==
    /\ res.has_content
    /\ \E i \in 1..Len(res.content) :
          /\ res.content[i].has_text
          /\ contains(lower(res.content[i].text), T_successfully)

\* C3: when a finishing tool returns content with a text that contains
\* "successfully" (case-insensitive), the loop ends on that turn: no model
\* call and no tool call follows, however many turns are left.
C3_Step ==
    /\ ( /\ ToolReturned
         /\ func_name \in { N_send_email, N_send_email_outlook }
         /\ ReportsSuccess(result') ) =>
            /\ pc' = "done"
            /\ reported' = "task_completed"
            /\ model_calls' = model_calls
            /\ tool_calls' = tool_calls
    /\ Halted

NamesUnknownTool(all, line) ==
    /\ startswith(line, T_FUNCTION_CALL)
    /\ parsed_func_name(line) \notin tool_names(all)

NamesUnknownToolTable ==
    [g \in GmailToolLists |->
        [line \in StrippedReplies |->
            NamesUnknownTool(build_all_tools(ppt_tools, g), line)]]

C4_Step ==
    /\ ( /\ ModelReplied
         /\ NamesUnknownToolTable[gmail_tools][response_text'] ) =>
            /\ pc' = "done"
            /\ reported' = "unknown_tool"
            /\ NothingDone
    /\ Halted

C4_UnknownTool == [][C4_Step]_vars

\* The session ended on a call of a tool no server declares.
C4_Witness ==
    /\ pc = "done"
    /\ reported = "unknown_tool"
    /\ func_name \notin tool_names(all_tools)
    /\ NamesUnknownTool(all_tools, response_text)

\* ---- C5 ----------------------------------------------------------------
\* The reply is neither a FUNCTION_CALL line nor a FINAL_ANSWER line.
Malformed(text) ==
    /\ ~startswith(text, T_FUNCTION_CALL)
    /\ ~startswith(text, T_FINAL_ANSWER)

\* C5: a reply that, stripped, is neither a FUNCTION_CALL line nor a
\* FINAL_ANSWER line ends the turn loop on that turn with a reported
\* error, and no model call follows it.
C5_Step ==
    (ModelReplied /\ Malformed(response_text')) =>
        /\ pc' = "done"
        /\ reported' = "exception"

C5_MalformedTerminates == [][C5_Step]_vars

\* ---- C6 ----------------------------------------------------------------
\* The declared type of the i-th parameter of the tool the loop resolves
\* the name to, in the registry all.
DeclaredTypeIn(all, name, i) ==
    all[tool_index(all, name)].properties[i].type

DeclaredType(name, i) == DeclaredTypeIn(all_tools, name, i)

\* The number of raw arguments the coercion loop can consume.
Consumable(all, line) ==
    LET n == Len(all[tool_index(all, parsed_func_name(line))].properties)
        m == Len(parsed_params(line))
    IN  IF n < m THEN n ELSE m

\* A FUNCTION_CALL of a known tool in which some raw argument that is
\* consumed for an integer or number parameter does not convert.
Unconvertible(all, line) ==
    /\ startswith(line, T_FUNCTION_CALL)
    /\ parsed_func_name(line) \in tool_names(all)
    /\ \E i \in 1..Consumable(all, line) :
          LET raw == strip_key(parsed_params(line)[i])
              declared == DeclaredTypeIn(all, parsed_func_name(line), i)
          IN  \/ declared = "integer" /\ ~int_ok(raw)
              \/ declared = "number" /\ ~float_ok(raw)

UnconvertibleTable ==
    [g \in GmailToolLists |->
        [line \in StrippedReplies |->
            Unconvertible(build_all_tools(ppt_tools, g), line)]]

\* C6: when a raw argument consumed for an integer or number parameter
\* cannot be converted, the session ends on that turn: call_tool is not
\* invoked, executed_calls and the transcript are unchanged, and no model
\* call follows.
C6_Step ==
    /\ ( /\ ModelReplied
         /\ UnconvertibleTable[gmail_tools][response_text'] ) =>
            /\ pc' = "done"
            /\ reported' = "exception"
            /\ NothingDone
    /\ Halted

C6_CoercionError == [][C6_Step]_vars

\* The session ended on an argument that does not convert.
C6_Witness ==
    /\ pc = "done"
    /\ reported = "exception"
    /\ response_text # NoText
    /\ Unconvertible(all_tools, response_text)

\* ---- C7 ----------------------------------------------------------------
\* C7: when the model call times out or raises, the session ends on that
\* turn: the turn is not retried, no tool is called and no model call
\* follows.
C7_Step ==
    /\ ModelFailed =>
          /\ pc' = "done"
          /\ reported' = "exception"
          /\ turn' = turn
          /\ NothingDone
    /\ Halted

C7_ModelFailure == [][C7_Step]_vars

\* The session ended on a failed model call, after a tool call and with
\* turns to spare.
C7_Witness ==
    /\ pc = "done"
    /\ reported = "exception"
    /\ response_text = NoText
    /\ model_calls > 1
    /\ model_calls < max_Iterations
    /\ tool_calls # <<>>

\* ---- C8 ----------------------------------------------------------------
\* C8: when call_tool raises, the session ends on that turn: the call is
\* not retried, no TOOL_CALL or TOOL_RESULT line is appended for it, and
\* no model call or tool call follows.
C8_Step ==
    /\ ToolFailed =>
          /\ pc' = "done"
          /\ reported' = "exception"
          /\ iteration_responses' = iteration_responses
          /\ tool_calls' = tool_calls
          /\ model_calls' = model_calls
    /\ Halted

C8_ToolFailure == [][C8_Step]_vars

\* The session ended on a call_tool that raised: the call was made, its
\* signature is kept, and the transcript has no line for it.
C8_Witness ==
    /\ pc = "done"
    /\ reported = "exception"
    /\ result = NoResult
    /\ tool_calls # <<>>
    /\ tool_calls[Len(tool_calls)].func_name = func_name
    /\ call_signature(func_name, arguments) \in executed_calls
    /\ Len(iteration_responses) = 2 * (Len(tool_calls) - 1)

\* ---- C9 ----------------------------------------------------------------
\* C9: a reply that starts with FINAL_ANSWER: ends the session on that
\* turn: no tool is called in the turn, the transcript and executed_calls
\* are unchanged, and no model call follows.
C9_Step ==
    /\ (ModelReplied /\ startswith(response_text', T_FINAL_ANSWER)) =>
          /\ pc' = "done"
          /\ reported' = "final_answer"
          /\ NothingDone
    /\ Halted

C9_FinalAnswer == [][C9_Step]_vars

\* The session ended on a final answer given after a tool call.
C9_Witness ==
    /\ pc = "done"
    /\ reported = "final_answer"
    /\ startswith(response_text, T_FINAL_ANSWER)
    /\ tool_calls # <<>>
    /\ turn < max_Iterations

\* ---- C10 ---------------------------------------------------------------
RECURSIVE Pow10(_)
Pow10(k) == IF k = 0 THEN 1 ELSE 10 * Pow10(k - 1)

\* The number a digit string denotes: each digit times its place value.
RECURSIVE PlaceValue(_)
PlaceValue(d) ==
    IF d = <<>> THEN 0
    ELSE DigitValue[Head(d)] * Pow10(Len(d) - 1) + PlaceValue(Tail(d))

AllDigits(d) == d # <<>> /\ \A i \in 1..Len(d) : d[i] \in Digits

\* The raw text without a key: what follows its first "=", if it has one.
AfterKey(raw) ==
    IF \E i \in 1..Len(raw) : raw[i] = "="
    THEN LET k == CHOOSE i \in 1..Len(raw) :
                     raw[i] = "=" /\ \A j \in 1..(i - 1) : raw[j] # "="
         IN  SubSeq(raw, k + 1, Len(raw))
    ELSE raw

\* v is the integer the decimal numeral text denotes.
IsIntegerOf(v, text) ==
    /\ v.t = "int"
    /\ AllDigits(text)
    /\ v.n = PlaceValue(text)

\* v is the number the decimal text (digits "." digits) denotes.
IsNumberOf(v, text) ==
    \E k \in 1..Len(text) :
        LET whole == SubSeq(text, 1, k - 1)
            frac == SubSeq(text, k + 1, Len(text))
        IN  /\ text[k] = "."
            /\ AllDigits(whole)
            /\ AllDigits(frac)
            /\ v.t = "float"
            /\ ~v.neg
            /\ v.e + Len(frac) >= 0
            /\ v.n * Pow10(v.e + Len(frac)) = PlaceValue(whole \o frac)

\* The arguments held are those coerced from the FUNCTION_CALL reply held.
Coerced ==
    /\ response_text # NoText
    /\ startswith(response_text, T_FUNCTION_CALL)
    /\ func_name \in tool_names(all_tools)

\* Every coerced argument is Value(its raw text) by its declared type.
CoercedAs(Text(_)) ==
    \A i \in 1..Len(arguments) :
        LET raw == parsed_params(response_text)[i]
            declared == DeclaredType(func_name, i)
            v == arguments[i].value
        IN  CASE declared = "integer" -> IsIntegerOf(v, Text(raw))
              [] declared = "number" -> IsNumberOf(v, Text(raw))
              [] OTHER -> v.t = "str" /\ v.s = Text(raw)

SameText(raw) == raw

\* The claim as stated: every consumed raw argument arrives as the integer
\* value, the numeric value or the unchanged text of the raw text itself.
C10_RawTextCoerced == Coerced => CoercedAs(SameText)

\* C10 (amended): every consumed raw argument arrives as the integer value
\* (integer), the numeric value (number) or the unchanged text (any other
\* or no declared type) of the raw text without its key, that is of what
\* follows the first "=" of the raw text when it has one.
C10_ValueTextCoerced == Coerced => CoercedAs(AfterKey)

\* A call went out with a number, and with a text cut at its "=".
C10_Witness ==
    /\ pc = "tool"
    /\ Coerced
    /\ Len(arguments) = 2
    /\ arguments[1].value.t = "float"
    /\ arguments[2].value.t = "str"
    /\ arguments[2].value.s # parsed_params(response_text)[2]

\* ---- C11 ---------------------------------------------------------------
\* The text without the whitespace around it, found by position.
Trim(s) ==
    LET inked == {i \in 1..Len(s) : s[i] \notin Whitespace}
    IN  IF inked = {} THEN <<>>
        ELSE SubSeq(s, CHOOSE i \in inked : \A j \in inked : i <= j,
                       CHOOSE i \in inked : \A j \in inked : j <= i)

\* The tokens of a FUNCTION_CALL line: the pieces between the bars of what
\* follows the prefix, each without the whitespace around it.
Tokens(line) ==
    LET body == SubSeq(line, Len(T_FUNCTION_CALL) + 1, Len(line))
        bars == {i \in 1..Len(body) : body[i] = "|"}
        cut == [k \in 0..(Cardinality(bars) + 1) |->
                  IF k = 0 THEN 0
                  ELSE IF k = Cardinality(bars) + 1 THEN Len(body) + 1
                  ELSE CHOOSE p \in bars :
                          Cardinality({q \in bars : q < p}) = k - 1]
    IN  [k \in 1..(Cardinality(bars) + 1) |->
            Trim(SubSeq(body, cut[k - 1] + 1, cut[k] - 1))]

\* A FUNCTION_CALL line written from a name and an argument list.
RECURSIVE Barred(_)
Barred(items) ==
    IF items = <<>> THEN <<>>
    ELSE <<"|">> \o Head(items) \o Barred(Tail(items))

Serialize(name, items) == T_FUNCTION_CALL \o <<" ">> \o name \o Barred(items)

WithoutParens(name) ==
    IF Len(name) >= 2 /\ name[Len(name) - 1] = "(" /\ name[Len(name)] = ")"
    THEN SubSeq(name, 1, Len(name) - 2)
    ELSE name

\* What parsing extracts from line, written out again, has the tokens of
\* line: as many, in the same order, each the same text but for a "()"
\* taken off the end of the name; the value the coercion reads from a
\* token is the token or the token without its key.
RoundTrips(line) ==
    LET toks == Tokens(line)
        name == parsed_func_name(line)
        items == parsed_params(line)
        again == Tokens(Serialize(name, items))
    IN  /\ Len(again) = Len(toks)
        /\ again[1] = WithoutParens(toks[1])
        /\ \A i \in 2..Len(toks) :
              /\ again[i] = toks[i]
              /\ strip_key(items[i - 1]) = AfterKey(toks[i])
        /\ parsed_params(Serialize(name, items)) = items
        /\ parsed_func_name(Serialize(name, items)) = WithoutParens(name)

RoundTripTable ==
    [line \in { t \in StrippedReplies : startswith(t, T_FUNCTION_CALL) } |->
        [round_trips |-> RoundTrips(line),
         name |-> WithoutParens(Tokens(line)[1])]]

\* C11: for every FUNCTION_CALL reply the loop parses, writing the
\* extracted name and ordered argument list out again reproduces the
\* original tokens exactly, in number and order, except for a trailing
\* "()" removed from the name and a key= prefix removed from a token.
C11_ParserRoundTrip ==
    (response_text # NoText /\ startswith(response_text, T_FUNCTION_CALL)) =>
        /\ response_text \in DOMAIN RoundTripTable
        /\ RoundTripTable[response_text].round_trips
        /\ func_name # NoText =>
              func_name = RoundTripTable[response_text].name

\* A reply with a key= token and a token of another spelling was parsed
\* and its call went out.
C11_Witness ==
    /\ pc = "tool"
    /\ startswith(response_text, T_FUNCTION_CALL)
    /\ Len(Tokens(response_text)) = 3
    /\ AfterKey(Tokens(response_text)[2]) # Tokens(response_text)[2]
    /\ func_name = Tokens(response_text)[1]

\* ---- C12 ---------------------------------------------------------------
\* C12: after any sequence of calls of the five PowerPoint tools, with any
\* PowerPoint operation failing, every call returns a response whose
\* content is a success message or an error description; no call raises
\* out of its tool function.
C12_AlwaysResponds ==
    tool_name # "<none>" =>
        /\ ~tool_response.raised
        /\ tool_response.content # ""

\* ---- C13 ---------------------------------------------------------------
\* C13: a turn skipped as a duplicate changes nothing but the turn counter:
\* the transcript, executed_calls and the last result are unchanged,
\* call_tool is not invoked, the session does not end, and the prompt of
\* the next turn is the prompt of the skipped turn.
C13_Step ==
    /\ (ModelReplied /\ reported' = "skipping_duplicate") =>
          /\ pc' = "loop"
          /\ NothingDone
          /\ query' = query
          /\ current_query' = current_query
    /\ (pc = "loop" /\ reported = "skipping_duplicate" /\ pc' = "llm") =>
          /\ current_query' = current_query
          /\ turn' = turn + 1
          /\ tool_calls' = tool_calls
          /\ executed_calls' = executed_calls
          /\ iteration_responses' = iteration_responses
          /\ last_response' = last_response

C13_SkipChangesNothing == [][C13_Step]_vars

\* A turn with a transcript in its prompt was skipped and a turn follows.
C13_Witness ==
    /\ pc = "loop"
    /\ reported = "skipping_duplicate"
    /\ turn < max_Iterations
    /\ iteration_responses # <<>>
    /\ current_query # query
    /\ current_query =
          build_current_query(query, last_response, iteration_responses)

\* ---- C14 ---------------------------------------------------------------
\* The signatures of the calls issued to a tool session so far.
IssuedSignatures ==
    { Signature(tool_calls[i].func_name, tool_calls[i].arguments) :
        i \in 1..Len(tool_calls) }

\* C14: executed_calls is exactly the set of signatures of the calls issued
\* so far: empty at the start, a signature is in the set while its call is
\* outstanding, none is removed, and none is added without a call.
C14_Exact ==
    /\ executed_calls = IssuedSignatures
    /\ turn = 0 => executed_calls = {}
    /\ pc = "tool" =>
          /\ Signature(func_name, arguments) \in executed_calls
          /\ tool_calls[Len(tool_calls)].func_name = func_name
          /\ tool_calls[Len(tool_calls)].arguments = arguments

C14_Step ==
    /\ executed_calls \subseteq executed_calls'
    /\ executed_calls' # executed_calls =>
          /\ pc = "llm"
          /\ pc' = "tool"
          /\ Len(tool_calls') = Len(tool_calls) + 1
          /\ executed_calls' =
                executed_calls \cup {Signature(func_name', arguments')}
    /\ (pc = "llm" /\ pc' # "tool") => executed_calls' = executed_calls

C14_ExecutedCallSet == [] C14_Exact /\ [][C14_Step]_vars

\* A second call is outstanding, and a call that was not issued left the
\* set alone.
C14_Witness ==
    /\ pc = "tool"
    /\ Len(tool_calls) = 2
    /\ Cardinality(executed_calls) = 2
    /\ turn > 2

\* ---- C15 ---------------------------------------------------------------
\* The transcript line of a call.
CallLine(name, args) == T_TOOL_CALL \o name \o T_args \o repr_dict(args)

\* The transcript shows the call with a result that is not an error report.
ReturnedSuccess(name, args) ==
    \E i \in 1..(Len(iteration_responses) - 1) :
        /\ iteration_responses[i] = CallLine(name, args)
        /\ ~contains(iteration_responses[i + 1], T_Error)

\* The transcript shows the call with an error report as its result.
ReturnedError(name, args) ==
    \E i \in 1..(Len(iteration_responses) - 1) :
        /\ iteration_responses[i] = CallLine(name, args)
        /\ contains(iteration_responses[i + 1], T_Error)

\* The call was issued to a tool session earlier in the session.
Issued(name, args) ==
    \E i \in 1..Len(tool_calls) :
        /\ tool_calls[i].func_name = name
        /\ tool_calls[i].arguments = args

\* The claim as stated: a call is skipped as a repeat only when the same
\* call already returned successfully; after an error report it is not.
C15_SkippedOnlyAfterSuccess ==
    reported = "skipping_duplicate" => ReturnedSuccess(func_name, arguments)

\* C15 (amended): a FUNCTION_CALL is skipped as a repeat exactly when a
\* call with the same signature was already issued in this session,
\* whatever it returned: a call whose earlier execution returned an error
\* report is skipped as a repeat too and is not issued again.
C15_Step ==
    ModelReplied =>
        LET o == Interpreted(response_text')
        IN  /\ reported' = "skipping_duplicate" <=>
                  (o.kind = "call" /\ Issued(o.func_name, o.arguments))
            /\ (o.kind = "call" /\ ReturnedError(o.func_name, o.arguments)) =>
                  /\ reported' = "skipping_duplicate"
                  /\ tool_calls' = tool_calls

C15_SkippedAfterAnyResult == [][C15_Step]_vars

\* A call that had returned an error report was skipped as a repeat.
C15_Witness ==
    /\ reported = "skipping_duplicate"
    /\ ReturnedError(func_name, arguments)
    /\ ~ReturnedSuccess(func_name, arguments)

\* ---- C16 ---------------------------------------------------------------
\* The mapping that binds raw arguments to parameters by position: the
\* i-th raw argument to the i-th declared parameter, for as many as both
\* lists have.
Positional(all, line) ==
    LET declared == all[tool_index(all, parsed_func_name(line))].properties
        raw == parsed_params(line)
    IN  [i \in 1..Consumable(all, line) |->
            [pname |-> declared[i].pname,
             value |-> convert(param_type(declared[i]), strip_key(raw[i]))]]

\* For a FUNCTION_CALL of a known tool whose consumed arguments convert:
\* the positional mapping, and how many arguments and parameters it has.
PositionalTable ==
    [g \in GmailToolLists |->
        [line \in StrippedReplies |->
            LET all == build_all_tools(ppt_tools, g)
                applies ==
                    /\ startswith(line, T_FUNCTION_CALL)
                    /\ parsed_func_name(line) \in tool_names(all)
                    /\ ~Unconvertible(all, line)
            IN  [applies |-> applies,
                 mapping |-> IF applies THEN Positional(all, line) ELSE <<>>,
                 given |-> IF applies THEN Len(parsed_params(line)) ELSE 0,
                 declared |->
                    IF applies
                    THEN Len(all[tool_index(all, parsed_func_name(line))]
                                .properties)
                    ELSE 0]]]

\* C16: coercion binds the i-th raw argument to the i-th declared
\* parameter; with fewer raw arguments than parameters the remaining
\* parameters are left out without error, and with more the surplus is
\* discarded and the call goes on.
C16_Step ==
    ModelReplied =>
        LET p == PositionalTable[gmail_tools][response_text']
        IN  p.applies =>
                /\ arguments' = p.mapping
                /\ Len(arguments') =
                      (IF p.given < p.declared THEN p.given ELSE p.declared)
                /\ \/ pc' = "tool" /\ reported' = "invoking_tool"
                   \/ pc' = "loop" /\ reported' = "skipping_duplicate"

C16_PositionalBinding == [][C16_Step]_vars

\* A call went out with two of four parameters bound, and after it one
\* whose surplus argument was dropped.
C16_Witness ==
    /\ pc = "tool"
    /\ Len(tool_calls) = 2
    /\ tool_calls[1].func_name = N_draw_rectangle
    /\ Len(tool_calls[1].arguments) = 2
    /\ tool_calls[1].arguments[1].pname = P_x
    /\ tool_calls[1].arguments[2].pname = P_y
    /\ func_name = N_open_powerpoint
    /\ arguments = <<>>
    /\ Len(parsed_params(response_text)) = 1

\* ---- C17 ---------------------------------------------------------------
\* What the server behind a session declared.
DeclaredBy(session) == IF session = GMAIL THEN gmail_tools ELSE ppt_tools

\* The call's parameter names are the leading parameters of a descriptor
\* of that name declared by the server the call was sent to.
FromOneServer(call) ==
    \E k \in 1..Len(DeclaredBy(call.tool_session)) :
        LET tool == DeclaredBy(call.tool_session)[k]
        IN  /\ tool.name = call.func_name
            /\ Len(call.arguments) <= Len(tool.properties)
            /\ \A j \in 1..Len(call.arguments) :
                  call.arguments[j].pname = tool.properties[j].pname

\* C17: when both servers declare a tool of one name the later
\* registration shadows the earlier as a whole: every call that went out
\* was coerced against the schema of the server whose session it was sent
\* to.
C17_ShadowsAsAWhole ==
    \A i \in 1..Len(tool_calls) : FromOneServer(tool_calls[i])

\* ---- C18 ---------------------------------------------------------------
\* What call_tool returned, as the text the transcript shows.
ResultText(res) ==
    IF res.has_content
    THEN repr_list(extract_outputs(res.content))
    ELSE res.str

\* TOOL_CALL entries at the odd places, TOOL_RESULT entries at the even.
C18_Alternates ==
    /\ Len(iteration_responses) % 2 = 0
    /\ \A i \in 1..Len(iteration_responses) :
          IF i % 2 = 1
          THEN /\ startswith(iteration_responses[i], T_TOOL_CALL)
               /\ ~startswith(iteration_responses[i], T_TOOL_RESULT)
          ELSE /\ startswith(iteration_responses[i], T_TOOL_RESULT)
               /\ ~startswith(iteration_responses[i], T_TOOL_CALL)

\* A step keeps the entries the transcript has, and adds entries only
\* when call_tool returned: the line of the call that went out and then
\* the line of what it returned.
C18_Step ==
    /\ Len(iteration_responses') >= Len(iteration_responses)
    /\ SubSeq(iteration_responses', 1, Len(iteration_responses))
          = iteration_responses
    /\ iteration_responses' # iteration_responses =>
          /\ ToolReturned
          /\ iteration_responses' =
                iteration_responses
                \o << CallLine(func_name, arguments),
                      T_TOOL_RESULT \o ResultText(result') >>

\* C18: the transcript is empty at session start, is only ever extended
\* at its end, and alternates TOOL_CALL and TOOL_RESULT entries starting
\* with TOOL_CALL: its length is even and each TOOL_RESULT is the result
\* of the TOOL_CALL just before it.
C18_Transcript ==
    /\ iteration_responses = <<>>
    /\ []C18_Alternates
    /\ [][C18_Step]_vars

\* Two calls returned and the transcript holds both pairs.
C18_Witness ==
    /\ Len(iteration_responses) = 4
    /\ Len(tool_calls) = 2
    /\ iteration_responses[1] # iteration_responses[3]
    /\ pc = "loop"

\* ---- C19 ---------------------------------------------------------------
\* The session was ended by the finishing trigger.
EndedByFinishingCall == pc = "done" /\ reported = "task_completed"

\* C19 as stated: whenever call_tool returns, the call's TOOL_CALL and
\* TOOL_RESULT entries are appended to the transcript, also for a
\* finishing call that ends the session.
C19_PairForEveryReturn ==
    [][ToolReturned =>
          Len(iteration_responses') = Len(iteration_responses) + 2]_vars

\* When call_tool returns, the pair is appended unless the call ends the
\* session.
C19_Step ==
    ToolReturned =>
        IF pc' = "done"
        THEN /\ reported' = "task_completed"
             /\ iteration_responses' = iteration_responses
        ELSE /\ Len(iteration_responses') = Len(iteration_responses) + 2
             /\ iteration_responses'[Len(iteration_responses) + 1]
                   = CallLine(func_name, arguments)

\* A session the finishing trigger ended: every call went out and
\* returned, and all but the last have their pair.
C19_AtExit ==
    EndedByFinishingCall =>
        /\ Len(tool_calls) >= 1
        /\ Len(iteration_responses) = 2 * (Len(tool_calls) - 1)
        /\ \A i \in 1..(Len(tool_calls) - 1) :
              iteration_responses[2 * i - 1] =
                  CallLine(tool_calls[i].func_name, tool_calls[i].arguments)
        /\ tool_calls[Len(tool_calls)].func_name \in FinishingTools

\* C19 (amended): the finishing check comes before the append: a call
\* that returns gets its TOOL_CALL/TOOL_RESULT pair unless it is a
\* finishing call that ends the session, so at such an exit the
\* transcript holds a pair for every call that returned but the last.
C19_PairUnlessFinishing == []C19_AtExit /\ [][C19_Step]_vars

\* A drawing call and then a finishing call returned; the session is over
\* with one pair in the transcript.
C19_Witness ==
    /\ EndedByFinishingCall
    /\ Len(tool_calls) = 2
    /\ Len(iteration_responses) = 2
    /\ result # NoResult

\* ---- C20 ---------------------------------------------------------------
\* The extracted outputs of either result shape: the texts of the content
\* items, or the one string of a result without content.
OutputsOf(res) ==
    IF res.has_content THEN extract_outputs(res.content) ELSE << res.str >>

\* An output of the result contains "successfully" in any letter case.
OutputsReportSuccess(res) ==
    \E i \in 1..Len(OutputsOf(res)) :
        contains(lower(OutputsOf(res)[i]), T_successfully)

C20_Step ==
    ( /\ ToolReturned
      /\ func_name \in FinishingTools
      /\ OutputsReportSuccess(result') ) =>
        /\ pc' = "done"
        /\ reported' = "task_completed"

\* C20: the finishing trigger is evaluated on the extracted outputs of
\* both result shapes: a finishing tool's result without structured
\* content whose stringification contains "successfully" ends the loop
\* on that turn, as a structured result does.
C20_TriggerOnBothShapes == [][C20_Step]_vars

\* ---- C21 ---------------------------------------------------------------
\* The lines of the prompt's conversation part after the task's line.
LinesAfterTask ==
    split(SubSeq(current_query, Len(query) + 2, Len(current_query)), "\n")

\* C21: while a model call is out, its prompt holds the user task and
\* after it every transcript entry of the earlier turns, in append order
\* and entire; it holds the task alone exactly when the transcript is
\* empty.
C21_PromptHoldsTranscript ==
    pc = "llm" =>
        /\ startswith(current_query, query)
        /\ (current_query = query) <=> (iteration_responses = <<>>)
        /\ iteration_responses # <<>> =>
              /\ startswith(current_query, query \o <<"\n">>)
              /\ LinesAfterTask = iteration_responses

\* A third prompt, with the pairs of two completed calls in it.
C21_Witness ==
    /\ pc = "llm"
    /\ turn >= 3
    /\ Len(iteration_responses) = 4
    /\ current_query # query

\* ---- C22 ---------------------------------------------------------------
\* Model calls started whose outcome (reply, error or timeout) the loop
\* has not seen.
OutstandingModelCalls == model_calls - model_results

\* Tool calls started whose outcome (result or exception) the loop has not
\* seen.
OutstandingToolCalls == Len(tool_calls) - tool_results

C22_AtMostOne ==
    /\ OutstandingModelCalls \in {0, 1}
    /\ OutstandingToolCalls \in {0, 1}
    /\ OutstandingModelCalls + OutstandingToolCalls <= 1

\* A model call is started only when nothing is outstanding, and a tool
\* call only in the step that sees the turn's model reply.
C22_Step ==
    /\ model_calls' # model_calls =>
          /\ model_calls' = model_calls + 1
          /\ OutstandingModelCalls = 0
          /\ OutstandingToolCalls = 0
          /\ model_results = turn
          /\ turn' = turn + 1
    /\ tool_calls' # tool_calls =>
          /\ Len(tool_calls') = Len(tool_calls) + 1
          /\ OutstandingModelCalls = 1
          /\ OutstandingToolCalls = 0
          /\ model_results' = model_calls

\* C22: the loop is turn-sequential: at most one model call and at most
\* one tool call is outstanding, never both, and the model call of the
\* next turn starts only after the previous turn's reply and, if a tool
\* was called, that call's result have been seen.
C22_TurnSequential == []C22_AtMostOne /\ [][C22_Step]_vars

\* The third model call is out after two tool calls whose results were
\* seen.
C22_Witness ==
    /\ OutstandingModelCalls = 1
    /\ model_calls = 3
    /\ tool_results = 2
    /\ Len(tool_calls) = 2

\* ---- C23 ---------------------------------------------------------------
\* The last turn was skipped as a duplicate.
LastTurnSkipped == last_turn.outcome = "skipping_duplicate"

\* After a skipped turn: no tool call, no change of the transcript or of
\* the executed calls; a reply is the skipped turn's reply and is skipped
\* as the same duplicate; the session ends only when range(max_Iterations)
\* is used up.
C23_Step ==
    LastTurnSkipped =>
        /\ tool_calls' = tool_calls
        /\ iteration_responses' = iteration_responses
        /\ executed_calls' = executed_calls
        /\ pc = "llm" =>
              /\ ModelReplied
              /\ current_query = last_turn.prompt
              /\ last_turn' = last_turn
              /\ reported' = "skipping_duplicate"
              /\ pc' = "loop"
        /\ (pc # "done" /\ pc' = "done") =>
              /\ pc = "loop"
              /\ turn = max_Iterations
              /\ model_calls = max_Iterations

\* C23: with a model whose reply is a function of the prompt alone, once
\* a turn is skipped as a duplicate every later turn of the session is
\* skipped as the same duplicate: no further tool call is made, the
\* transcript never changes again, and the session ends only by using up
\* the turn budget.
C23_SkippedForGood == [][C23_Step]_vars

\* A session that made one tool call, skipped every turn after a repeated
\* reply, and ended with the budget used up.
C23_Witness ==
    /\ pc = "done"
    /\ LastTurnSkipped
    /\ turn = max_Iterations
    /\ tool_results = 1
    /\ Len(iteration_responses) = 2

\* ---- C24 ---------------------------------------------------------------
\* Token b is token a with a key: some text and "=" written before it.
WithKey(a, b) ==
    \E k \in 2..Len(b) : b[k] = "=" /\ SubSeq(b, k + 1, Len(b)) = a

\* Token b is token a with a key, where a has no "=" of its own and the
\* key has none either.
WithPlainKey(a, b) ==
    /\ WithKey(a, b)
    /\ Cardinality({k \in 1..Len(b) : b[k] = "="}) = 1

Suffixes(a) == { SubSeq(a, k, Len(a)) : k \in 1..(Len(a) + 1) }

\* Both tokens, keys aside, are numerals of one integer.
SameInteger(a, b) ==
    /\ AllDigits(a)
    /\ AllDigits(b)
    /\ PlaceValue(a) = PlaceValue(b)

\* Two tokens for a parameter of the given type that differ at most in a
\* key on one of them and, for an integer, in the numeral.
SameArgument(Keyed(_, _), type, a, b) ==
    \E x \in {a} \cup {t \in Suffixes(a) : Keyed(t, a)},
       y \in {b} \cup {t \in Suffixes(b) : Keyed(t, b)} :
        \/ x = y
        \/ type = "integer" /\ SameInteger(x, y)

\* Two FUNCTION_CALL lines of a known tool that differ at most in a "()"
\* after the name, whitespace around tokens, keys, integer numerals and
\* arguments beyond the declared parameters.
SameCall(Keyed(_, _), all, a, b) ==
    /\ startswith(a, T_FUNCTION_CALL)
    /\ startswith(b, T_FUNCTION_CALL)
    /\ LET ta == Tokens(a)
           tb == Tokens(b)
           name == WithoutParens(ta[1])
       IN  /\ WithoutParens(tb[1]) = name
           /\ name \in tool_names(all)
           /\ LET declared == Len(all[tool_index(all, name)].properties)
                  na == IF Len(ta) - 1 < declared THEN Len(ta) - 1
                        ELSE declared
                  nb == IF Len(tb) - 1 < declared THEN Len(tb) - 1
                        ELSE declared
              IN  /\ na = nb
                  /\ \A i \in 1..na :
                        SameArgument(Keyed, DeclaredTypeIn(all, name, i),
                                     ta[i + 1], tb[i + 1])

\* The pairs of replies that are the same call, under each registry.
SameCallTable ==
    [g \in GmailToolLists |->
        { pair \in StrippedReplies \X StrippedReplies :
            SameCall(WithKey, build_all_tools(ppt_tools, g),
                     pair[1], pair[2]) }]

PlainSameCallTable ==
    [g \in GmailToolLists |->
        { pair \in StrippedReplies \X StrippedReplies :
            SameCall(WithPlainKey, build_all_tools(ppt_tools, g),
                     pair[1], pair[2]) }]

\* The reply of this step is skipped as the call that went out i-th.
SkippedAs(i) ==
    /\ reported' = "skipping_duplicate"
    /\ pc' = "loop"
    /\ tool_calls' = tool_calls
    /\ func_name' = tool_calls[i].func_name
    /\ arguments' = tool_calls[i].arguments

\* Reply line asks for the call that went out i-th.
AsksFor(line, i) ==
    /\ Interpreted(line).kind = "call"
    /\ Interpreted(line).func_name = tool_calls[i].func_name
    /\ Interpreted(line).arguments = tool_calls[i].arguments

\* For each reply, the calls asked for by the replies that are the same
\* call as it, worked out once.
CallsOfPairs(table) ==
    [g \in GmailToolLists |->
        [second \in StrippedReplies |->
            { Call(InterpretedTable[g][first].func_name,
                   InterpretedTable[g][first].arguments) :
                first \in { l \in StrippedReplies :
                              /\ InterpretedTable[g][l].kind = "call"
                              /\ << l, second >> \in table[g] } }]]

SameCallsTable == CallsOfPairs(SameCallTable)

PlainSameCallsTable == CallsOfPairs(PlainSameCallTable)

C24_StatedStep ==
    ModelReplied =>
        \A i \in 1..Len(tool_calls) :
            Call(tool_calls[i].func_name, tool_calls[i].arguments)
                \in SameCallsTable[gmail_tools][response_text']
            => SkippedAs(i)

C24_Step ==
    ModelReplied =>
        \A i \in 1..Len(tool_calls) :
            Call(tool_calls[i].func_name, tool_calls[i].arguments)
                \in PlainSameCallsTable[gmail_tools][response_text']
            => SkippedAs(i)

\* C24 as stated: two FUNCTION_CALL replies of a session that differ only
\* in a "()" after the tool name, whitespace around tokens, a key= prefix
\* on an argument, the numeral of an integer or surplus arguments have
\* the same signature, and the second is skipped.
C24_VariantSkipped == [][C24_StatedStep]_vars

\* C24 (amended): the same, where a key= prefix counts only on an
\* argument that has no "=" of its own: the coercion cuts every argument
\* at its first "=".
C24_PlainVariantSkipped == [][C24_Step]_vars

\* A reply with spaces and plain numerals was skipped, the rectangle it
\* asks for having gone out: a call that the same reply asks for, and the
\* reply with a key and another numeral.
C24_Witness ==
    /\ pc = "loop"
    /\ reported = "skipping_duplicate"
    /\ response_text = strip(reply_draw_spaced)
    /\ Len(tool_calls) = 1
    /\ AsksFor(reply_draw, 1)
    /\ << reply_draw, response_text >> \in PlainSameCallTable[gmail_tools]
    /\ reply_draw # response_text

\* ---- C25 ---------------------------------------------------------------
Arg(pname, value) == [pname |-> pname, value |-> value]

\* The two calls differ: in the tool name, in which parameters are
\* present, or in the type or the content of a value.
Differ(c, d) ==
    \/ c.func_name # d.func_name
    \/ Len(c.arguments) # Len(d.arguments)
    \/ \E i \in 1..Len(c.arguments) :
          \/ c.arguments[i].pname # d.arguments[i].pname
          \/ c.arguments[i].value.t # d.arguments[i].value.t
          \/ c.arguments[i].value.s # d.arguments[i].value.s
          \/ c.arguments[i].value.n # d.arguments[i].value.n
          \/ c.arguments[i].value.e # d.arguments[i].value.e
          \/ c.arguments[i].value.neg # d.arguments[i].value.neg

\* Calls that differ in one respect each: the type of a value (7, '7',
\* 7.0, '7.0'), the parameter name, the parameters present, a text that
\* reads like the rendering of two arguments, the tool name.
SampleCalls ==
    { Call(N_draw_rectangle, << Arg(P_x, IntVal(7)) >>),
      Call(N_draw_rectangle, << Arg(P_x, StrVal(<<"7">>)) >>),
      Call(N_draw_rectangle, << Arg(P_x, FloatVal(FALSE, 7, 0)) >>),
      Call(N_draw_rectangle, << Arg(P_x, StrVal(<<"7", ".", "0">>)) >>),
      Call(N_draw_rectangle, << Arg(P_y, IntVal(7)) >>),
      Call(N_draw_rectangle, << Arg(P_x, IntVal(7)), Arg(P_y, IntVal(7)) >>),
      Call(N_draw_rectangle,
           << Arg(P_x, StrVal(<<"a">>)), Arg(P_y, StrVal(<<"b">>)) >>),
      Call(N_draw_rectangle,
           << Arg(P_x, StrVal(<<"a", "'", ",", " ", "'", "y", "'", ":", " ",
                                "'", "b">>)) >>),
      Call(N_draw_rectangle, <<>>),
      Call(N_open_powerpoint, <<>>) }

\* The calls the replies ask for, under either registry.
AskedCalls ==
    { Call(InterpretedTable[g][line].func_name,
           InterpretedTable[g][line].arguments) :
        g \in GmailToolLists,
        line \in { l \in StrippedReplies :
                     \A h \in GmailToolLists :
                         InterpretedTable[h][l].kind = "call" } }

\* Calls that differ have different signatures.
SignatureInjective ==
    \A c, d \in SampleCalls \cup AskedCalls :
        Differ(c, d) =>
            call_signature(c.func_name, c.arguments)
                # call_signature(d.func_name, d.arguments)

\* The executed calls are as many as the calls that went out.
C25_OnePerCall ==
    /\ SignatureInjective
    /\ Cardinality(executed_calls) = Len(tool_calls)
    /\ \A i, j \in 1..Len(tool_calls) :
          i # j => Differ(tool_calls[i], tool_calls[j])

\* A FUNCTION_CALL is skipped only if a call that does not differ from it
\* went out; one that differs from every call that went out is
\* dispatched.
C25_Step ==
    ( /\ ModelReplied
      /\ Interpreted(response_text').kind = "call" ) =>
        LET asked == Call(func_name', arguments')
        IN  /\ reported' = "skipping_duplicate" =>
                  \E i \in 1..Len(tool_calls) : ~Differ(tool_calls[i], asked)
            /\ (\A i \in 1..Len(tool_calls) : Differ(tool_calls[i], asked)) =>
                  /\ reported' = "invoking_tool"
                  /\ pc' = "tool"
                  /\ Len(tool_calls') = Len(tool_calls) + 1
                  /\ ~Differ(tool_calls'[Len(tool_calls')], asked)

\* C25: the call signature is injective on tool name and coerced argument
\* mapping: a FUNCTION_CALL is skipped only if an earlier call of the
\* session had the same tool name and an equal mapping (same parameter
\* names, values and value types); a call that differs in a coerced
\* argument or in which parameters are present is dispatched.
C25_SignatureInjective == []C25_OnePerCall /\ [][C25_Step]_vars

\* After draw_rectangle with x alone, draw_rectangle with the same x and a
\* y went out.
C25_Witness ==
    /\ pc = "tool"
    /\ Len(tool_calls) = 2
    /\ tool_calls[1].func_name = N_draw_rectangle
    /\ tool_calls[2].func_name = N_draw_rectangle
    /\ Len(tool_calls[1].arguments) = 1
    /\ Len(tool_calls[2].arguments) = 2
    /\ tool_calls[1].arguments[1] = tool_calls[2].arguments[1]

\* ---- C26 ---------------------------------------------------------------
\* A step in which one of the drawing and saving tools was called.
DrawingOrSavingCalled ==
    /\ << tool_name', tool_response', shapes', saved' >>
          # << tool_name, tool_response, shapes, saved >>
    /\ tool_name' \in { "draw_rectangle", "draw_rectangle_with_text",
                        "save_presentation" }

C26_Step ==
    (DrawingOrSavingCalled /\ ~opened) =>
        /\ tool_response' = Response(NotOpen)
        /\ UNCHANGED << ppt_app, ppt_presentation, presentation_open,
                        slides, shapes, saved >>

\* C26: draw_rectangle, draw_rectangle_with_text and save_presentation act
\* on PowerPoint only between a successful open_powerpoint and the next
\* successful close_powerpoint; called in any other state (before any
\* open, after a failed open, after a successful close) they return the
\* "PowerPoint is not open" error response and change nothing.
C26_ActOnlyWhenOpen == [][C26_Step]_server_vars

=============================================================================
